---- MODULE Spec2Model ----
(***************************************************************************)
(* Model of the cost-estimation engine (calculatePlanCost,                 *)
(* getDetailedCostBreakdown), of the scenario generator                    *)
(* (createPersonScenarios, createScenarios), of the imports                *)
(* (importPlanFromJSON with the App's handleJsonImport, importPeople,      *)
(* importPlans) and of the people and plans panels of the App of           *)
(* healthcarecompare.                                                      *)
(*                                                                         *)
(* Money is counted in cents, so that the overloaded copay field keeps its *)
(* meaning: a plan value v of the source is the integer 100 * v here, a    *)
(* value strictly between 0 and One is a coinsurance rate (in percent) and *)
(* a value of One or more is a flat amount.  All deductible-applicable     *)
(* charges and all limits of the model are whole dollars, which makes the  *)
(* product charge * rate an exact number of cents.                         *)
(***************************************************************************)
EXTENDS Integers, Sequences, FiniteSets, TLC

VARIABLES
    plan,                 \* argument: the insurance plan
    people,               \* argument: the household, in input order
    costSettings,         \* argument: the cost settings, or NullSettings
    call,                 \* the call in progress, or NoCall
    idx,                  \* position of people.forEach: next person to process
    familyDeductiblePaid, \* local of getDetailedCostBreakdown
    familyOOPPaid,        \* local of getDetailedCostBreakdown
    coinsuranceRate,      \* local of getDetailedCostBreakdown
    personBreakdowns,     \* local of getDetailedCostBreakdown
    iterLocals,           \* the constants of each finished loop iteration
    breakdown,            \* last value returned by getDetailedCostBreakdown
    summary,              \* last value returned by calculatePlanCost
    firstBreakdown,       \* history: the first breakdown returned for the arguments
    firstSummary,         \* history: the first summary returned for the arguments
    phase,                \* history: which calls have returned so far
    thrown,               \* the exception the last call ended with, or "none"
    baseline,             \* scenario generator: the baseline person
    personScenarios,      \* scenario generator: value of createPersonScenarios
    basePeople,           \* createScenarios: the argument people
    scenarios,            \* createScenarios: the last value returned
    firstScenarios,       \* history: the first value returned for basePeople
    timesCreated,         \* history: how often createScenarios was applied
    plans,                \* App state: the plans compared
    importPremium,        \* App state: the premium field of the import modal
    pastedJson,           \* App state: the text area of the import modal
    importError,          \* App state: the error the import modal shows
    showPromptModal,      \* App state: the import modal is open
    importedData,         \* importPeople: the parsed file
    currentPeople,        \* importPeople: the people already there
    validPeople,          \* importPeople: the value returned
    estimates,            \* comparison: totals of the estimator on related inputs
    appPeople,            \* App state: people
    appScenarios,         \* App state: scenarios
    scenariosEnabled,     \* App state: scenariosEnabled
    effectDue,            \* App: people was set, its effect has not run yet
    pendingReads,         \* App: FileReader reads of people files under way
    pendingPlanReads      \* App: FileReader reads of plan files under way

vars == <<plan, people, costSettings, call, idx, familyDeductiblePaid,
          familyOOPPaid, coinsuranceRate, personBreakdowns, iterLocals,
          breakdown, summary, firstBreakdown, firstSummary, phase, thrown,
          baseline, personScenarios, basePeople, scenarios, firstScenarios,
          timesCreated, plans, importPremium, pastedJson, importError,
          showPromptModal, importedData, currentPeople, validPeople,
          estimates, appPeople, appScenarios, scenariosEnabled, effectDue,
          pendingReads, pendingPlanReads>>

calcVars == <<plan, people, costSettings, call, idx, familyDeductiblePaid,
              familyOOPPaid, coinsuranceRate, personBreakdowns, iterLocals,
              breakdown, summary, firstBreakdown, firstSummary, phase,
              thrown>>

scenVars == <<baseline, personScenarios>>

listVars == <<basePeople, scenarios, firstScenarios, timesCreated>>

planVars == <<plans, importPremium, pastedJson, importError, showPromptModal>>

importVars == <<importedData, currentPeople, validPeople>>

compareVars == <<estimates>>

appVars == <<appPeople, appScenarios, scenariosEnabled, effectDue, pendingReads>>

planFileVars == <<pendingPlanReads>>

laterVars == <<compareVars, appVars, planFileVars>>

(***************************************************************************)
(* Bounds of the model.                                                    *)
(***************************************************************************)
MaxPeople == 2

MaxVisits == 100

\* How often createScenarios is applied to the same people.
MaxCalls == 2

\* Plans in the comparison.
MaxPlans == 2

\* Entries of an imported people file.
MaxImport == 2

(***************************************************************************)
(* Numbers of the source.                                                  *)
(***************************************************************************)
\* 1.00 in cents: the threshold between a rate and a flat amount.
One == 100

MonthsPerYear == 12

DefaultRefills == 12

\* const estimatedDrugCost = 100 (dollars), in cents.
EstimatedDrugCost == 10000

(***************************************************************************)
(* Arithmetic of the source.  A cost read from a costSettings object that  *)
(* lacks the key is undefined, and a charge computed from it is NaN; NaN   *)
(* goes through +, -, *, Math.min and Math.max, and every comparison with  *)
(* it is false.  No amount of the model is negative, and the differences   *)
(* it takes are whole dollars, so that -1 stands for NaN.                  *)
(***************************************************************************)
NaN == -1

Plus(a, b) == IF a = NaN \/ b = NaN THEN NaN ELSE a + b

Minus(a, b) == IF a = NaN \/ b = NaN THEN NaN ELSE a - b

Times(a, b) == IF a = NaN \/ b = NaN THEN NaN ELSE a * b

\* a > b
Greater(a, b) == a # NaN /\ b # NaN /\ a > b

\* Math.min(a, b)
Min(a, b) == IF a = NaN \/ b = NaN THEN NaN ELSE IF a <= b THEN a ELSE b

\* Math.max(a, b)
Max(a, b) == IF a = NaN \/ b = NaN THEN NaN ELSE IF a >= b THEN a ELSE b

\* amount * rate, the rate being kept in percent.
TimesRate(amount, rate) ==
    IF amount = NaN THEN NaN ELSE (amount * rate) \div One

VisitTypes == {"primaryCare", "specialist", "urgentCare", "emergencyRoom",
               "mentalHealth", "diagnosticTest", "imaging",
               "rehabilitationOutpatient", "habilitationOutpatient"}

\* The keys of exemptServices, in the order Object.entries walks them.
ExemptTypes == <<"primaryCare", "specialist", "urgentCare", "mentalHealth">>

\* The entries of deductibleServices, in array order.
DeductibleTypes == <<"emergencyRoom", "diagnosticTest", "imaging",
                     "rehabilitationOutpatient", "habilitationOutpatient">>

\* The costs used when costSettings is null.
DefaultCosts == [emergencyRoom |-> 150000, diagnosticTest |-> 30000,
                 imaging |-> 20000, rehabilitationOutpatient |-> 15000,
                 habilitationOutpatient |-> 15000]

NullSettings == [isNull |-> TRUE]

\* const costs = costSettings || {...}
Costs(cs) == IF "isNull" \in DOMAIN cs THEN DefaultCosts ELSE cs

\* costs.emergencyRoom, ...: undefined when the object lacks the key, which
\* makes the product with the visits NaN.
CostOf(costs, t) == IF t \in DOMAIN costs THEN costs[t] ELSE NaN

\* person.visits.primaryCare, ...: undefined when the mapping lacks the key;
\* the only use of an undefined count is the test `> 0`, which fails as it
\* does for 0.
VisitCount(person, t) ==
    IF t \in DOMAIN person.visits THEN person.visits[t] ELSE 0

\* plan.copays?.primaryCare || 0, ...
Copay(pl, t) ==
    IF "copays" \in DOMAIN pl /\ t \in DOMAIN pl.copays THEN pl.copays[t] ELSE 0

\* plan.medicalDeductible?.person || 0, ...
Limit(pl, field, who) ==
    IF field \in DOMAIN pl /\ who \in DOMAIN pl[field] THEN pl[field][who] ELSE 0

\* plan.premium || 0
Premium(pl) == IF "premium" \in DOMAIN pl THEN pl.premium ELSE 0

\* person.visits.primaryCare and person.medications.forEach raise a TypeError
\* when the person has no visits mapping or no medications list.
Throws(person) ==
    "visits" \notin DOMAIN person \/ "medications" \notin DOMAIN person

(***************************************************************************)
(* Medications.  customCost is the raw value the form stores: a string     *)
(* (empty until the user types), kept here with what parseFloat makes of   *)
(* it (NaN when it does not start with a number).                          *)
(***************************************************************************)
\* !!med.customCost
CustomCostTruthy(med) ==
    CASE med.customCost.kind \in {"absent", "null"} -> FALSE
      [] med.customCost.kind = "number" -> med.customCost.val \notin {0, NaN}
      [] med.customCost.kind = "string" -> ~med.customCost.empty

\* parseFloat(med.customCost) || null, null being kept as 0
ParsedCustomCost(med) ==
    IF med.customCost.kind \in {"absent", "null"} \/ med.customCost.val = NaN
    THEN 0
    ELSE med.customCost.val

\* const refills = med.refillsPerYear || 12
Refills(med) == IF med.refillsPerYear = 0 THEN DefaultRefills ELSE med.refillsPerYear

\* plan.rxCopays ? (plan.rxCopays['tier' + med.tier] || 0) : 0
RxCopay(pl, med) ==
    IF "rxCopays" \in DOMAIN pl /\ med.tier \in DOMAIN pl.rxCopays
    THEN pl.rxCopays[med.tier]
    ELSE 0

RECURSIVE SumCost(_)
SumCost(items) ==
    IF items = <<>> THEN 0 ELSE Plus(Head(items).cost, SumCost(Tail(items)))

(***************************************************************************)
(* 1. Exempt copays of one person.                                         *)
(***************************************************************************)
\* Mutant: a copay below 1 is taken for a rate, and the visit is not charged.
ExemptVisitCharges_RateSkipped(pl, person) ==
    LET all == [k \in 1..Len(ExemptTypes) |->
                  [source |-> ExemptTypes[k], med |-> 0,
                   cost |-> VisitCount(person, ExemptTypes[k])
                            * Copay(pl, ExemptTypes[k])]]
    IN  SelectSeq(all, LAMBDA c : /\ VisitCount(person, c.source) > 0
                                  /\ Copay(pl, c.source) >= One)

ExemptVisitCharges(pl, person) ==
    LET all == [k \in 1..Len(ExemptTypes) |->
                  [source |-> ExemptTypes[k], med |-> 0,
                   cost |-> VisitCount(person, ExemptTypes[k])
                            * Copay(pl, ExemptTypes[k])]]
    IN  SelectSeq(all, LAMBDA c : VisitCount(person, c.source) > 0)

ExemptMedIsCharged(pl, med) == ~CustomCostTruthy(med) /\ RxCopay(pl, med) > One

ExemptMedCharges(pl, person) ==
    LET meds == person.medications
        all == [k \in 1..Len(meds) |->
                  [source |-> "medication", med |-> k,
                   cost |-> RxCopay(pl, meds[k]) * Refills(meds[k])]]
    IN  SelectSeq(all, LAMBDA c : ExemptMedIsCharged(pl, meds[c.med]))

ExemptCharges(pl, person) ==
    ExemptVisitCharges(pl, person) \o ExemptMedCharges(pl, person)

(***************************************************************************)
(* 2. Deductible-applicable charges of one person.                         *)
(***************************************************************************)
\* Mutant: the visits are charged at the default costs, whatever the settings.
DeductibleVisitCharges_Defaults(costs, person) ==
    LET all == [k \in 1..Len(DeductibleTypes) |->
                  [source |-> DeductibleTypes[k], med |-> 0,
                   cost |-> Times(VisitCount(person, DeductibleTypes[k]),
                                  DefaultCosts[DeductibleTypes[k]])]]
    IN  SelectSeq(all, LAMBDA c : VisitCount(person, c.source) > 0)

DeductibleVisitCharges(costs, person) ==
    LET all == [k \in 1..Len(DeductibleTypes) |->
                  [source |-> DeductibleTypes[k], med |-> 0,
                   cost |-> Times(VisitCount(person, DeductibleTypes[k]),
                                  CostOf(costs, DeductibleTypes[k]))]]
    IN  SelectSeq(all, LAMBDA c : VisitCount(person, c.source) > 0)

\* The medication is priced as coinsurance on an estimated drug cost.
MedIsCoinsurance(pl, med) ==
    /\ ParsedCustomCost(med) = 0
    /\ RxCopay(pl, med) <= One
    /\ RxCopay(pl, med) > 0

DeductibleMedCost(pl, med) ==
    IF ParsedCustomCost(med) # 0
    THEN ParsedCustomCost(med) * Refills(med)
    ELSE EstimatedDrugCost * Refills(med)

DeductibleMedIsCharged(pl, med) ==
    ParsedCustomCost(med) # 0 \/ MedIsCoinsurance(pl, med)

DeductibleMedCharges(pl, person) ==
    LET meds == person.medications
        all == [k \in 1..Len(meds) |->
                  [source |-> "medication", med |-> k,
                   cost |-> DeductibleMedCost(pl, meds[k])]]
    IN  SelectSeq(all, LAMBDA c : DeductibleMedIsCharged(pl, meds[c.med]))

DeductibleCharges(pl, costs, person) ==
    DeductibleVisitCharges(costs, person) \o DeductibleMedCharges(pl, person)

\* if (service.planRate > 0 && service.planRate < 1) coinsuranceRate = service.planRate
RECURSIVE RateAfterVisits(_, _, _, _)
RateAfterVisits(pl, person, k, rate) ==
    IF k > Len(DeductibleTypes) THEN rate
    ELSE LET t == DeductibleTypes[k]
             planRate == Copay(pl, t)
         IN  RateAfterVisits(pl, person, k + 1,
                 IF VisitCount(person, t) > 0 /\ planRate > 0 /\ planRate < One
                 THEN planRate ELSE rate)

\* if (coinsuranceRate === 0) coinsuranceRate = rxCopay
RECURSIVE RateAfterMeds(_, _, _, _)
RateAfterMeds(pl, person, k, rate) ==
    IF k > Len(person.medications) THEN rate
    ELSE LET med == person.medications[k]
         IN  RateAfterMeds(pl, person, k + 1,
                 IF MedIsCoinsurance(pl, med) /\ rate = 0
                 THEN RxCopay(pl, med) ELSE rate)

\* The coinsurance rate after the charges of one person were gathered.
RateAfterPerson(pl, person, rate) ==
    RateAfterMeds(pl, person, 1, RateAfterVisits(pl, person, 1, rate))

(***************************************************************************)
(* The limits in force.                                                    *)
(***************************************************************************)
\* Mutant: the monthly premium taken for the annual one.
AnnualPremium_Monthly(pl) == Premium(pl)

AnnualPremium(pl) == Premium(pl) * MonthsPerYear

IsFamilyPlan(pp) == Len(pp) > 1

IndividualDeductibleLimit(pl) == Limit(pl, "medicalDeductible", "person")

FamilyDeductibleLimit(pl, pp) ==
    IF IsFamilyPlan(pp)
    THEN IF Limit(pl, "medicalDeductible", "family") # 0
         THEN Limit(pl, "medicalDeductible", "family")
         ELSE IndividualDeductibleLimit(pl)
    ELSE IndividualDeductibleLimit(pl)

IndividualMOOPLimit(pl) == Limit(pl, "outOfPocketMax", "person")

FamilyMOOPLimit(pl, pp) ==
    IF IsFamilyPlan(pp)
    THEN IF Limit(pl, "outOfPocketMax", "family") # 0
         THEN Limit(pl, "outOfPocketMax", "family")
         ELSE IndividualMOOPLimit(pl)
    ELSE IndividualMOOPLimit(pl)

(***************************************************************************)
(* The steps of one loop iteration.                                        *)
(***************************************************************************)
ContributionToDeductible(charges, individualLimit) == Min(charges, individualLimit)

FamilyDeductibleRemaining(familyLimit, paidSoFar) ==
    Max(0, Minus(familyLimit, paidSoFar))

\* Mutant: the family deductible left over is not looked at.
EffectiveDeductiblePaid_NoFamilyCap(contribution, familyRemaining) == contribution

EffectiveDeductiblePaid(contribution, familyRemaining) ==
    Min(contribution, familyRemaining)

\* Mutant: coinsurance is charged on the whole charges.
ChargesAfterDeductible_NoDeduction(charges, effectivePaid) == charges

ChargesAfterDeductible(charges, effectivePaid) ==
    Max(0, Minus(charges, effectivePaid))

CoinsurancePaid(chargesAfter, rate) == TimesRate(chargesAfter, rate)

\* Mutant: the deductible paid is counted twice.
TotalOOP_DeductibleTwice(exempt, effectivePaid, coinsurance) ==
    Plus(Plus(Plus(exempt, effectivePaid), effectivePaid), coinsurance)

TotalOOP(exempt, effectivePaid, coinsurance) ==
    Plus(Plus(exempt, effectivePaid), coinsurance)

\* if (isFamilyPlan && personBreakdown.totalOOP > individualMOOPLimit)
IndividualMOOPHit(isFamily, totalOOP, individualLimit) ==
    isFamily /\ Greater(totalOOP, individualLimit)

\* Mutant: the individual maximum is noted but not applied.
CappedTotalOOP_Uncapped(isFamily, totalOOP, individualLimit) == totalOOP

CappedTotalOOP(isFamily, totalOOP, individualLimit) ==
    IF IndividualMOOPHit(isFamily, totalOOP, individualLimit)
    THEN individualLimit
    ELSE totalOOP

NoteOf(isFamily, totalOOP, individualLimit) ==
    IF IndividualMOOPHit(isFamily, totalOOP, individualLimit)
    THEN "Individual MOOP Hit"
    ELSE "null"

\* Mutant: the family maximum is not applied.
FinalFamilyOOP_Unclamped(oopPaid, familyLimit) == oopPaid

FinalFamilyOOP(oopPaid, familyLimit) == Min(oopPaid, familyLimit)

\* The constants of the iteration for `person`, given the locals on entry.
Iteration(pl, pp, cs, person, rateBefore, paidBefore) ==
    LET exempt == ExemptCharges(pl, person)
        deductible == DeductibleCharges(pl, Costs(cs), person)
        totalExemptCopays == SumCost(exempt)
        totalCharges == SumCost(deductible)
        rate == RateAfterPerson(pl, person, rateBefore)
        contribution == ContributionToDeductible(totalCharges,
                                                 IndividualDeductibleLimit(pl))
        remaining == FamilyDeductibleRemaining(FamilyDeductibleLimit(pl, pp),
                                               paidBefore)
        effective == EffectiveDeductiblePaid(contribution, remaining)
        after == ChargesAfterDeductible(totalCharges, effective)
        coinsurance == CoinsurancePaid(after, rate)
    IN  [exempt |-> exempt,
         deductible |-> deductible,
         totalExemptCopays |-> totalExemptCopays,
         totalDeductibleApplicableCharges |-> totalCharges,
         coinsuranceRate |-> rate,
         contributionToDeductible |-> contribution,
         familyDeductibleRemaining |-> remaining,
         effectiveDeductiblePaid |-> effective,
         chargesAfterDeductible |-> after,
         coinsurancePaid |-> coinsurance,
         totalOOP |-> TotalOOP(totalExemptCopays, effective, coinsurance)]

\* The personBreakdown pushed at the end of the iteration.
PersonBreakdown(pl, pp, person, it) ==
    [id |-> person.id,
     totalCharges |-> Plus(it.totalExemptCopays,
                          it.totalDeductibleApplicableCharges),
     deductiblePaid |-> it.contributionToDeductible,
     coinsurancePaid |-> it.coinsurancePaid,
     totalOOP |-> CappedTotalOOP(IsFamilyPlan(pp), it.totalOOP,
                                 IndividualMOOPLimit(pl)),
     note |-> NoteOf(IsFamilyPlan(pp), it.totalOOP, IndividualMOOPLimit(pl)),
     chargeDetails |-> [exempt |-> it.exempt, deductible |-> it.deductible]]

\* The object getDetailedCostBreakdown returns.
DetailedResult(pl, pp, breakdowns, deductiblePaid, oopPaid) ==
    LET finalFamilyOOP == FinalFamilyOOP(oopPaid, FamilyMOOPLimit(pl, pp))
    IN  [returned |-> TRUE,
         premiumBreakdown |-> [annualPremium |-> AnnualPremium(pl),
                               monthlyPremium |-> Premium(pl),
                               monthsPerYear |-> MonthsPerYear],
         personBreakdowns |-> breakdowns,
         individualDeductibleLimit |-> IndividualDeductibleLimit(pl),
         familyDeductibleLimit |-> FamilyDeductibleLimit(pl, pp),
         individualMOOPLimit |-> IndividualMOOPLimit(pl),
         familyMOOPLimit |-> FamilyMOOPLimit(pl, pp),
         familyDeductiblePaid |-> Min(deductiblePaid, FamilyDeductibleLimit(pl, pp)),
         familyOOPTotal |-> oopPaid,
         finalFamilyOOP |-> finalFamilyOOP,
         grandTotal |-> Plus(AnnualPremium(pl), finalFamilyOOP)]

\* The object calculatePlanCost returns.
SummaryResult(detailed) ==
    [returned |-> TRUE,
     premium |-> detailed.premiumBreakdown.annualPremium,
     visits |-> detailed.finalFamilyOOP,
     medications |-> 0,
     total |-> detailed.grandTotal]

NoResult == [returned |-> FALSE]

NoCall == [fn |-> "none"]

Functions == {"getDetailedCostBreakdown", "calculatePlanCost"}

\* Mutant: the rate is kept across calls, as a variable of the module would be.
EntryCoinsuranceRate_Stale(left) == left

\* let coinsuranceRate = 0: a local of the call, whatever an earlier call left.
EntryCoinsuranceRate(left) == 0

(***************************************************************************)
(* The arguments the model draws.                                          *)
(***************************************************************************)
\* Copays of the plans: primary care $25, specialist $40, urgent care 0.50
\* (a value below 1 on an exempt service), emergency room 20% coinsurance,
\* imaging a flat $50, the other services 0.
PlanCopays == [t \in VisitTypes |->
                 CASE t = "primaryCare" -> 2500
                   [] t = "specialist" -> 4000
                   [] t = "urgentCare" -> 50
                   [] t = "emergencyRoom" -> 20
                   [] t = "imaging" -> 5000
                   [] OTHER -> 0]

\* Tier 1 a flat $10, tier 2 30% coinsurance, tier 3 a rate of exactly 1,
\* tiers 4 and 5 not set.
PlanRxCopays == <<1000, 30, 100, 0, 0>>

PlanSet ==
    {[premium |-> pr,
      medicalDeductible |-> [person |-> dp, family |-> df],
      outOfPocketMax |-> [person |-> op, family |-> of],
      copays |-> PlanCopays,
      rxCopays |-> PlanRxCopays] :
        pr \in {0, 30000}, dp \in {0, 50000}, df \in {0, 80000},
        op \in {0, 60000, 500000}, of \in {0, 100000}}

\* The cost settings of a user who raised the emergency room estimate.
UserSettings == [emergencyRoom |-> 200000, diagnosticTest |-> 30000,
                 imaging |-> 25000, rehabilitationOutpatient |-> 15000,
                 habilitationOutpatient |-> 15000]

SettingsSet == {NullSettings, UserSettings}

NoVisits == [t \in VisitTypes |-> 0]

\* A medication as addMedication creates it (customCost ''), then edited.
TierMed(tier, refills) ==
    [tier |-> tier, refillsPerYear |-> refills,
     customCost |-> [kind |-> "string", empty |-> TRUE, val |-> NaN]]

\* A medication with "60" typed into the custom cost field.
CustomMed(tier, refills) ==
    [tier |-> tier, refillsPerYear |-> refills,
     customCost |-> [kind |-> "string", empty |-> FALSE, val |-> 6000]]

\* The household members the model draws from (visits and medications).
Profiles ==
    { [visits |-> [NoVisits EXCEPT !["primaryCare"] = 4], medications |-> <<>>],
      [visits |-> [NoVisits EXCEPT !["emergencyRoom"] = 1], medications |-> <<>>],
      [visits |-> [NoVisits EXCEPT !["primaryCare"] = 2, !["urgentCare"] = 1,
                                   !["emergencyRoom"] = 1, !["imaging"] = 1],
       medications |-> <<TierMed(2, 4)>>],
      [visits |-> NoVisits, medications |-> <<CustomMed(1, 6)>>],
      [visits |-> NoVisits, medications |-> <<CustomMed(2, 0)>>],
      [visits |-> [NoVisits EXCEPT !["specialist"] = 1],
       medications |-> <<TierMed(1, 12), TierMed(3, 2)>>] }

\* Households of 1..MaxPeople members, ids in list order.
PeopleSet ==
    UNION { { [k \in 1..n |-> [id |-> k, visits |-> f[k].visits,
                                medications |-> f[k].medications]] :
                f \in [1..n -> Profiles] } : n \in 1..MaxPeople }

(***************************************************************************)
(* The estimator as a state machine: a call, one step per person of        *)
(* people.forEach, the return.                                             *)
(***************************************************************************)
\* No call was made yet.
NotCalled ==
    /\ call = NoCall
    /\ idx = 0
    /\ familyDeductiblePaid = 0
    /\ familyOOPPaid = 0
    /\ coinsuranceRate = 0
    /\ personBreakdowns = <<>>
    /\ iterLocals = <<>>
    /\ breakdown = NoResult
    /\ summary = NoResult
    /\ firstBreakdown = NoResult
    /\ firstSummary = NoResult
    /\ phase = "fresh"
    /\ thrown = "none"

CalcInit ==
    /\ plan \in PlanSet
    /\ people \in PeopleSet
    /\ costSettings \in SettingsSet
    /\ NotCalled

(***************************************************************************)
(* Arguments that are not what the App builds: plans and people lacking    *)
(* parts, cost settings for some of the services only, and the values a    *)
(* customCost field can hold without being a usable number.                *)
(***************************************************************************)
RawPlan ==
    [premium |-> 30000,
     medicalDeductible |-> [person |-> 50000, family |-> 80000],
     outOfPocketMax |-> [person |-> 500000, family |-> 800000],
     copays |-> PlanCopays,
     rxCopays |-> PlanRxCopays]

RawPlanSet ==
    { [k \in keys |-> RawPlan[k]] :
        keys \in { DOMAIN RawPlan,
                   DOMAIN RawPlan \ {"copays"},
                   DOMAIN RawPlan \ {"rxCopays"},
                   DOMAIN RawPlan \ {"medicalDeductible"},
                   DOMAIN RawPlan \ {"outOfPocketMax"},
                   {"premium"} } }

\* Cost settings that give the emergency room cost only.
PartialSettings == [k \in {"emergencyRoom"} |-> 200000]

RawSettingsSet == {NullSettings, UserSettings, PartialSettings}

\* Absent, null, the number 0, the strings '', '0' and 'abc'.
UnusableCustomCosts ==
    { [kind |-> "absent", empty |-> TRUE, val |-> NaN],
      [kind |-> "null", empty |-> TRUE, val |-> NaN],
      [kind |-> "number", empty |-> FALSE, val |-> 0],
      [kind |-> "string", empty |-> TRUE, val |-> NaN],
      [kind |-> "string", empty |-> FALSE, val |-> 0],
      [kind |-> "string", empty |-> FALSE, val |-> NaN] }

RawMed(tier, refills, customCost) ==
    [tier |-> tier, refillsPerYear |-> refills, customCost |-> customCost]

\* Members with a flat-copay and a coinsurance medication for each of these
\* customCost values, a member without visits, one without medications, one
\* whose visits give two counts only, and one as the App builds it.
RawProfiles ==
    { [visits |-> NoVisits,
       medications |-> <<RawMed(1, 3, cc), RawMed(2, 3, cc)>>] :
          cc \in UnusableCustomCosts }
    \cup
    { [k \in {"medications"} |-> <<>>],
      [k \in {"visits"} |-> [NoVisits EXCEPT !["primaryCare"] = 2]],
      [visits |-> [k \in {"emergencyRoom", "imaging"} |-> 1],
       medications |-> <<TierMed(1, 0)>>],
      [visits |-> [NoVisits EXCEPT !["primaryCare"] = 2, !["imaging"] = 1],
       medications |-> <<TierMed(2, 4), TierMed(4, 2)>>] }

RawPeopleSet ==
    UNION { { [k \in 1..n |->
                 [key \in DOMAIN f[k] \cup {"id"} |->
                     IF key = "id" THEN k ELSE f[k][key]]] :
                f \in [1..n -> RawProfiles] } : n \in 1..MaxPeople }

RawInit ==
    /\ plan \in RawPlanSet
    /\ people \in RawPeopleSet
    /\ costSettings \in RawSettingsSet
    /\ NotCalled

\* Entry of getDetailedCostBreakdown (directly, or from calculatePlanCost).
EnterCall(fn, pl, pp, cs, own) ==
    /\ call = NoCall
    /\ call' = [fn |-> fn, plan |-> pl, people |-> pp, costSettings |-> cs,
                own |-> own]
    /\ idx' = 1
    /\ familyDeductiblePaid' = 0
    /\ familyOOPPaid' = 0
    /\ coinsuranceRate' = EntryCoinsuranceRate(coinsuranceRate)
    /\ personBreakdowns' = <<>>
    /\ iterLocals' = <<>>
    /\ thrown' = "none"
    /\ UNCHANGED <<plan, people, costSettings, breakdown, summary,
                   firstBreakdown, firstSummary, phase>>

\* The caller evaluates the plan on its people and cost settings.
Call(fn) == EnterCall(fn, plan, people, costSettings, TRUE)

\* Arguments of a call made in between, on another plan and household.
OtherPlan ==
    [premium |-> 10000,
     medicalDeductible |-> [person |-> 50000, family |-> 0],
     outOfPocketMax |-> [person |-> 500000, family |-> 0],
     copays |-> PlanCopays,
     rxCopays |-> PlanRxCopays]

OtherPeople ==
    <<[id |-> 1, visits |-> [NoVisits EXCEPT !["emergencyRoom"] = 2],
       medications |-> <<>>]>>

\* The caller evaluates another plan and household.
CallOther == EnterCall("getDetailedCostBreakdown", OtherPlan, OtherPeople,
                       NullSettings, FALSE)

\* One iteration of people.forEach; a TypeError ends the call, and nothing
\* is returned.
ProcessPerson ==
    /\ call # NoCall
    /\ idx <= Len(call.people)
    /\ IF Throws(call.people[idx])
       THEN /\ thrown' = "TypeError"
            /\ call' = NoCall
            /\ UNCHANGED <<idx, coinsuranceRate, familyDeductiblePaid,
                           familyOOPPaid, personBreakdowns, iterLocals>>
       ELSE LET person == call.people[idx]
                it == Iteration(call.plan, call.people, call.costSettings,
                                person, coinsuranceRate, familyDeductiblePaid)
                pb == PersonBreakdown(call.plan, call.people, person, it)
            IN  /\ coinsuranceRate' = it.coinsuranceRate
                /\ familyDeductiblePaid' =
                       Plus(familyDeductiblePaid, it.effectiveDeductiblePaid)
                /\ familyOOPPaid' = Plus(familyOOPPaid, pb.totalOOP)
                /\ personBreakdowns' = Append(personBreakdowns, pb)
                /\ iterLocals' = Append(iterLocals, it)
                /\ idx' = idx + 1
                /\ UNCHANGED <<call, thrown>>
    /\ UNCHANGED <<plan, people, costSettings, breakdown, summary,
                   firstBreakdown, firstSummary, phase>>

\* History of the returns: "fresh" until the first result for the arguments,
\* "first" after it, "between" once a call on other arguments has returned
\* after it, "repeated" once the arguments were evaluated again after that.
PhaseAfterReturn(ph, own) ==
    CASE ph = "fresh" -> IF own THEN "first" ELSE "fresh"
      [] ph = "first" -> IF own THEN "first" ELSE "between"
      [] ph = "between" -> IF own THEN "repeated" ELSE "between"
      [] OTHER -> ph

\* The loop is over: the result is built and returned.
Return ==
    /\ call # NoCall
    /\ idx > Len(call.people)
    /\ LET result == DetailedResult(call.plan, call.people, personBreakdowns,
                                    familyDeductiblePaid, familyOOPPaid)
       IN  IF call.own
           THEN /\ breakdown' = result
                /\ firstBreakdown' = IF firstBreakdown.returned
                                     THEN firstBreakdown ELSE result
                /\ IF call.fn = "calculatePlanCost"
                   THEN /\ summary' = SummaryResult(result)
                        /\ firstSummary' = IF firstSummary.returned
                                           THEN firstSummary
                                           ELSE SummaryResult(result)
                   ELSE UNCHANGED <<summary, firstSummary>>
           ELSE UNCHANGED <<breakdown, summary, firstBreakdown, firstSummary>>
    /\ phase' = PhaseAfterReturn(phase, call.own)
    /\ call' = NoCall
    /\ UNCHANGED <<plan, people, costSettings, idx, familyDeductiblePaid,
                   familyOOPPaid, coinsuranceRate, personBreakdowns, iterLocals,
                   thrown>>

(***************************************************************************)
(* The scenario generator.                                                 *)
(*                                                                         *)
(* Math.floor(n * f) is computed in IEEE-754 double precision.  The double *)
(* nearest to f = tenths/10 is f + err/(10 * 2^53): 0.5 is exact, 0.3 is   *)
(* -1/(10 * 2^53) off, 0.2 is +1/(10 * 2^53) off and 0.7 is                *)
(* -4/(10 * 2^53) off.  The product n * f is rounded to the nearest double *)
(* before it is floored.  When the double of f lies above f, or n * f is   *)
(* no integer, the floor is that of the exact product.  When it lies below *)
(* f and q = n * tenths / 10 is an integer, the exact product of the       *)
(* doubles is q - (-err * n / 10) / 2^53, and it is rounded back up to q   *)
(* only if that gap is at most half the spacing of the doubles below q,    *)
(* 2^e / 2^53 with 2^e the largest power of two below q (a tie goes to q,  *)
(* whose mantissa is even); otherwise the result lies below q and the      *)
(* floor is q - 1.                                                         *)
(***************************************************************************)
RECURSIVE Pow2Floor(_, _)
Pow2Floor(q, e) == IF 2 * e <= q THEN Pow2Floor(q, 2 * e) ELSE e

FloorOfProduct(n, f) ==
    LET q == (n * f.tenths) \div 10
    IN  IF /\ f.err < 0
           /\ n > 0
           /\ (n * f.tenths) % 10 = 0
           /\ (-f.err) * n > 10 * Pow2Floor(q, 1)
        THEN q - 1
        ELSE q

\* The factors of bestCase; emergencyRoom is the literal 0.
BestCaseFactor ==
    [primaryCare |-> [tenths |-> 5, err |-> 0],
     specialist |-> [tenths |-> 3, err |-> -1],
     urgentCare |-> [tenths |-> 2, err |-> 1],
     mentalHealth |-> [tenths |-> 7, err |-> -4],
     diagnosticTest |-> [tenths |-> 5, err |-> 0],
     imaging |-> [tenths |-> 3, err |-> -1],
     rehabilitationOutpatient |-> [tenths |-> 5, err |-> 0],
     habilitationOutpatient |-> [tenths |-> 5, err |-> 0]]

BestCaseVisits(visits) ==
    [t \in VisitTypes |->
        IF t = "emergencyRoom" THEN 0
        ELSE Max(0, FloorOfProduct(visits[t], BestCaseFactor[t]))]

\* The additions of worstCase.
WorstCaseDelta ==
    [primaryCare |-> 2, specialist |-> 3, urgentCare |-> 1, emergencyRoom |-> 1,
     mentalHealth |-> 2, diagnosticTest |-> 2, imaging |-> 1,
     rehabilitationOutpatient |-> 4, habilitationOutpatient |-> 2]

\* Mutant: the worst case adds the same 2 visits to every type.
WorstCaseVisits_Flat(visits) == [t \in VisitTypes |-> visits[t] + 2]

WorstCaseVisits(visits) == [t \in VisitTypes |-> visits[t] + WorstCaseDelta[t]]

(***************************************************************************)
(* Names.  A name is the sequence of its pieces, a piece being one of the  *)
(* two suffixes or a stretch of other text; String.replace with a string   *)
(* pattern takes out the first occurrence of the pattern only.             *)
(***************************************************************************)
BestSuffix == " (Best Case)"

WorstSuffix == " (Worst Case)"

\* name.replace(piece, '')
RECURSIVE ReplaceFirst(_, _)
ReplaceFirst(name, piece) ==
    IF name = <<>> THEN <<>>
    ELSE IF Head(name) = piece THEN Tail(name)
    ELSE <<Head(name)>> \o ReplaceFirst(Tail(name), piece)

\* person.name.replace(suffix, '') + suffix
ScenarioName(name, suffix) == Append(ReplaceFirst(name, suffix), suffix)

createPersonScenarios(person) ==
    [returned |-> TRUE,
     bestCase |-> [person EXCEPT !.name = ScenarioName(person.name, BestSuffix),
                                 !.visits = BestCaseVisits(person.visits)],
     mostLikely |-> person,
     worstCase |-> [person EXCEPT !.name = ScenarioName(person.name, WorstSuffix),
                                  !.visits = WorstCaseVisits(person.visits)]]

\* Mutant: the three arrays are filled from the last person to the first.
createScenarios_Reversed(pp) ==
    LET n == Len(pp)
    IN  [returned |-> TRUE,
         bestCase |-> [k \in 1..n |-> createPersonScenarios(pp[n + 1 - k]).bestCase],
         mostLikely |-> [k \in 1..n |-> createPersonScenarios(pp[n + 1 - k]).mostLikely],
         worstCase |-> [k \in 1..n |-> createPersonScenarios(pp[n + 1 - k]).worstCase]]

\* people.forEach: one push to each of the three arrays per person.
createScenarios(pp) ==
    [returned |-> TRUE,
     bestCase |-> [k \in 1..Len(pp) |-> createPersonScenarios(pp[k]).bestCase],
     mostLikely |-> [k \in 1..Len(pp) |-> createPersonScenarios(pp[k]).mostLikely],
     worstCase |-> [k \in 1..Len(pp) |-> createPersonScenarios(pp[k]).worstCase]]

\* Baseline persons: the visit types of a set S at n visits, the others at 0.
BaselineSet ==
    { [id |-> 1,
       name |-> <<"Person 1">>,
       visits |-> [t \in VisitTypes |-> IF t \in S THEN n ELSE 0],
       medications |-> meds] :
         S \in SUBSET VisitTypes, n \in 0..MaxVisits,
         meds \in {<<>>, <<TierMed(1, 12)>>} }

\* The estimator, not in use.
CalcIdle ==
    /\ plan = CHOOSE pl \in PlanSet : TRUE
    /\ people = CHOOSE pp \in PeopleSet : TRUE
    /\ costSettings = NullSettings
    /\ NotCalled

\* The scenario generator, not in use.
ScenIdle ==
    /\ baseline = [id |-> 1, name |-> <<"Person 1">>, visits |-> NoVisits,
                   medications |-> <<>>]
    /\ personScenarios = NoResult

ScenInit ==
    /\ baseline \in BaselineSet
    /\ personScenarios = NoResult

CreatePersonScenarios ==
    /\ ~personScenarios.returned
    /\ personScenarios' = createPersonScenarios(baseline)
    /\ UNCHANGED baseline

\* The names the people of createScenarios bear: a plain one, and names the
\* user or an earlier derivation put suffixes into.
NameSet ==
    { <<"Ann">>,
      <<"Ann", BestSuffix>>,
      <<"Ann", WorstSuffix>>,
      <<"Ann", WorstSuffix, BestSuffix>>,
      <<"Ann", BestSuffix, BestSuffix>>,
      <<BestSuffix, "Ann", BestSuffix>>,
      <<"Ann", WorstSuffix, WorstSuffix>> }

ListProfiles ==
    { [visits |-> NoVisits, medications |-> <<>>],
      [visits |-> [NoVisits EXCEPT !["primaryCare"] = 4, !["mentalHealth"] = 3],
       medications |-> <<TierMed(1, 12)>>] }

\* People arrays of 0..MaxPeople persons, ids in list order.
ListPeopleSet ==
    UNION { { [k \in 1..n |-> [id |-> k, name |-> nm[k], visits |-> f[k].visits,
                                medications |-> f[k].medications]] :
                nm \in [1..n -> NameSet], f \in [1..n -> ListProfiles] } :
            n \in 0..MaxPeople }

\* createScenarios, not in use.
ListIdle ==
    /\ basePeople = <<>>
    /\ scenarios = NoResult
    /\ firstScenarios = NoResult
    /\ timesCreated = 0

ListInit ==
    /\ basePeople \in ListPeopleSet
    /\ scenarios = NoResult
    /\ firstScenarios = NoResult
    /\ timesCreated = 0

\* createScenarios(people), as the App calls it on load and on a reset.
CreateScenarios ==
    /\ timesCreated < MaxCalls
    /\ scenarios' = createScenarios(basePeople)
    /\ firstScenarios' = IF firstScenarios.returned
                         THEN firstScenarios
                         ELSE createScenarios(basePeople)
    /\ timesCreated' = timesCreated + 1
    /\ UNCHANGED basePeople

(***************************************************************************)
(* Import of a plan from pasted JSON.  A parsed JSON object is the         *)
(* function from its keys to their values.                                 *)
(***************************************************************************)
JsonNull == [isNull |-> TRUE]

\* { ...a, ...b }
Spread(a, b) ==
    [k \in DOMAIN a \cup DOMAIN b |-> IF k \in DOMAIN b THEN b[k] ELSE a[k]]

\* const requiredFields = [...]
RequiredFields == <<"name", "medicalDeductible", "rxDeductible",
                    "outOfPocketMax", "copays", "coinsurance", "rxCopays">>

\* requiredFields.filter(field => !jsonData.hasOwnProperty(field))
MissingFields(jsonData) ==
    SelectSeq(RequiredFields, LAMBDA f : f \notin DOMAIN jsonData)

\* parseFloat of the text of a number input
ParseFloat(input) == input.val

\* Mutant: the required fields are not looked at.
importPlanFromJSON_Unchecked(jsonData, premium, newId) ==
    IF jsonData = JsonNull
    THEN [thrown |-> "TypeError", fields |-> <<>>]
    ELSE [thrown |-> "none",
          plan |-> Spread([id |-> newId, premium |-> ParseFloat(premium),
                           rxDeductibleWaived |-> <<>>,
                           childrenDentalCheckup |-> 0,
                           childrenEyeExam |-> 0],
                          jsonData)]

\* The value returned, or the error thrown: the TypeError of
\* null.hasOwnProperty, or the Error naming the missing fields.
importPlanFromJSON(jsonData, premium, newId) ==
    IF jsonData = JsonNull
    THEN [thrown |-> "TypeError", fields |-> <<>>]
    ELSE IF MissingFields(jsonData) # <<>>
    THEN [thrown |-> "Error", fields |-> MissingFields(jsonData)]
    ELSE [thrown |-> "none",
          plan |-> Spread([id |-> newId, premium |-> ParseFloat(premium),
                           rxDeductibleWaived |-> <<>>,
                           childrenDentalCheckup |-> 0,
                           childrenEyeExam |-> 0],
                          jsonData)]

\* What the premium field of the modal can hold: it is a number input, whose
\* value is '' or the text of a number.
EmptyInput == [text |-> "", val |-> NaN]

PremiumInputs ==
    { EmptyInput, [text |-> "0", val |-> 0], [text |-> "-5", val |-> -500],
      [text |-> "250", val |-> 25000] }

\* The objects pasted: all seven fields, with an id or a premium of its own,
\* and with one, two or all fields left out.
JsonKeySets ==
    LET all == {RequiredFields[k] : k \in 1..Len(RequiredFields)}
    IN  { all, all \cup {"id"}, all \cup {"premium"}, all \ {"name"},
          all \ {"copays", "rxCopays"}, {} }

JsonObjects == { [k \in keys |-> 1] : keys \in JsonKeySets }

BlankText == [kind |-> "blank"]

\* What the text area can hold: nothing but white space, text that is no
\* JSON, the JSON text null, the JSON text of an object.
PastedSet ==
    { BlankText, [kind |-> "malformed"], [kind |-> "null"] }
        \cup { [kind |-> "object", data |-> d] : d \in JsonObjects }

NoError == [kind |-> "none"]

\* Math.max(...plans.map(p => p.id), 0)
RECURSIVE MaxId(_)
MaxId(list) ==
    IF list = <<>> THEN 0
    ELSE LET rest == MaxId(Tail(list))
         IN  IF Head(list).id >= rest THEN Head(list).id ELSE rest

\* The App, its import modal closed.
PlansIdle ==
    /\ plans = <<>>
    /\ importPremium = EmptyInput
    /\ pastedJson = BlankText
    /\ importError = NoError
    /\ showPromptModal = FALSE
    /\ pendingPlanReads = <<>>

PlansInit == PlansIdle

showLLMPrompt ==
    /\ ~showPromptModal
    /\ showPromptModal' = TRUE
    /\ UNCHANGED <<plans, importPremium, pastedJson, importError>>

\* The close buttons and the backdrop of the modal.
ClosePromptModal ==
    /\ showPromptModal
    /\ showPromptModal' = FALSE
    /\ UNCHANGED <<plans, importPremium, pastedJson, importError>>

\* onChange of the premium field.
SetImportPremium(v) ==
    /\ showPromptModal
    /\ importPremium' = v
    /\ UNCHANGED <<plans, pastedJson, importError, showPromptModal>>

\* onChange of the text area.
SetPastedJson(j) ==
    /\ showPromptModal
    /\ pastedJson' = j
    /\ UNCHANGED <<plans, importPremium, importError, showPromptModal>>

\* !importPremium || parseFloat(importPremium) <= 0
PremiumRejected(input) ==
    input.text = "" \/ (ParseFloat(input) # NaN /\ ParseFloat(input) <= 0)

\* The button "Add Plan to Comparison".
handleJsonImport ==
    /\ showPromptModal
    /\ Len(plans) < MaxPlans
    /\ IF PremiumRejected(importPremium)
       THEN /\ importError' = [kind |-> "premium"]
            /\ UNCHANGED <<plans, importPremium, pastedJson, showPromptModal>>
       ELSE IF pastedJson.kind = "blank"
       THEN /\ importError' = [kind |-> "paste"]
            /\ UNCHANGED <<plans, importPremium, pastedJson, showPromptModal>>
       ELSE IF pastedJson.kind = "malformed"
       THEN /\ importError' = [kind |-> "invalid", cause |-> "SyntaxError",
                               fields |-> <<>>]
            /\ UNCHANGED <<plans, importPremium, pastedJson, showPromptModal>>
       ELSE LET jsonData == IF pastedJson.kind = "null"
                            THEN JsonNull ELSE pastedJson.data
                newId == MaxId(plans) + 1
                imported == importPlanFromJSON(jsonData, importPremium, newId)
            IN  IF imported.thrown # "none"
                THEN /\ importError' = [kind |-> "invalid",
                                        cause |-> imported.thrown,
                                        fields |-> imported.fields]
                     /\ UNCHANGED <<plans, importPremium, pastedJson,
                                    showPromptModal>>
                ELSE /\ plans' = Append(plans, imported.plan)
                     /\ importPremium' = EmptyInput
                     /\ pastedJson' = BlankText
                     /\ importError' = NoError
                     /\ showPromptModal' = FALSE

(***************************************************************************)
(* Import of people from a file.                                           *)
(***************************************************************************)
\* An entry with a name, two visit counts and a medication.
FullEntry ==
    [name |-> "Bob",
     visits |-> [k \in {"primaryCare", "imaging"} |-> 2],
     medications |-> [items |-> <<TierMed(1, 12)>>]]

\* The entries of a file: the full one; without name or with an empty one;
\* without visits, with visits null, with a key that is no visit type, with
\* all nine keys; without medications, with medications null or empty.
EntrySet ==
    { FullEntry,
      [k \in {"visits", "medications"} |-> FullEntry[k]],
      [FullEntry EXCEPT !.name = ""],
      [k \in {"name", "medications"} |-> FullEntry[k]],
      [FullEntry EXCEPT !.visits = JsonNull],
      [FullEntry EXCEPT !.visits =
          [k \in {"primaryCare", "dental"} |-> IF k = "dental" THEN 3 ELSE 2]],
      [FullEntry EXCEPT !.visits = [NoVisits EXCEPT !["emergencyRoom"] = 1]],
      [k \in {"name", "visits"} |-> FullEntry[k]],
      [FullEntry EXCEPT !.medications = JsonNull],
      [FullEntry EXCEPT !.medications = [items |-> <<>>]] }

\* The parsed file: one entry, or an array of 0..MaxImport entries.
ImportedDataSet ==
    { [isArray |-> FALSE, items |-> <<e>>] : e \in EntrySet }
        \cup UNION { { [isArray |-> TRUE, items |-> f] : f \in [1..n -> EntrySet] } :
                     n \in 0..MaxImport }

\* person.name && person.visits && person.medications !== undefined
EntryAccepted(person) ==
    /\ "name" \in DOMAIN person /\ person.name # ""
    /\ "visits" \in DOMAIN person /\ person.visits # JsonNull
    /\ "medications" \in DOMAIN person

\* The object pushed for an accepted entry.
ImportedPerson(person, newId) ==
    [id |-> newId,
     name |-> person.name,
     medications |-> IF person.medications = JsonNull
                     THEN [items |-> <<>>] ELSE person.medications,
     visits |-> Spread(NoVisits, person.visits)]

\* for (const person of peopleToImport) { ... }
RECURSIVE ImportLoop(_, _, _)
ImportLoop(items, current, valid) ==
    IF items = <<>> THEN valid
    ELSE ImportLoop(Tail(items), current,
             IF EntryAccepted(Head(items))
             THEN Append(valid, ImportedPerson(Head(items),
                                               MaxId(current) + Len(valid) + 1))
             ELSE valid)

importPeople(data, current) ==
    [returned |-> TRUE, people |-> ImportLoop(data.items, current, <<>>)]

CurrentPeopleSet ==
    { <<>>,
      <<[id |-> 3, name |-> <<"Ann">>, visits |-> NoVisits, medications |-> <<>>],
        [id |-> 1, name |-> <<"Person 1">>, visits |-> NoVisits,
         medications |-> <<>>]>> }

\* importPeople, not in use.
ImportIdle ==
    /\ importedData = [isArray |-> TRUE, items |-> <<>>]
    /\ currentPeople = <<>>
    /\ validPeople = NoResult

ImportInit ==
    /\ importedData \in ImportedDataSet
    /\ currentPeople \in CurrentPeopleSet
    /\ validPeople = NoResult

ImportPeople ==
    /\ ~validPeople.returned
    /\ validPeople' = importPeople(importedData, currentPeople)
    /\ UNCHANGED <<importedData, currentPeople>>

(***************************************************************************)
(* The estimator as a function of its arguments, for the comparison of     *)
(* its results on related inputs: the three scenarios of a household, a    *)
(* household before and after a visit count is raised, a household in two  *)
(* orders.                                                                 *)
(***************************************************************************)
RECURSIVE EstimateLoop(_, _, _, _, _, _, _, _)
\* people.forEach from person k on, then the object returned.
EstimateLoop(pl, pp, cs, k, rate, deductiblePaid, oopPaid, breakdowns) ==
    IF k > Len(pp)
    THEN DetailedResult(pl, pp, breakdowns, deductiblePaid, oopPaid)
    ELSE LET it == Iteration(pl, pp, cs, pp[k], rate, deductiblePaid)
             pb == PersonBreakdown(pl, pp, pp[k], it)
         IN  EstimateLoop(pl, pp, cs, k + 1, it.coinsuranceRate,
                          Plus(deductiblePaid, it.effectiveDeductiblePaid),
                          Plus(oopPaid, pb.totalOOP), Append(breakdowns, pb))

getDetailedCostBreakdown(pl, pp, cs) ==
    EstimateLoop(pl, pp, cs, 1, EntryCoinsuranceRate(0), 0, 0, <<>>)

calculatePlanCost(pl, pp, cs) ==
    SummaryResult(getDetailedCostBreakdown(pl, pp, cs))

\* `Person ${id}`
DefaultName(id) == <<"Person " \o ToString(id)>>

\* Plans with a high maximum, with and without deductibles; the emergency
\* room at 20% and imaging either at a flat $50 or at 10%.
ComparePlanSet ==
    { [pl EXCEPT !.copays["imaging"] = c] :
        pl \in { q \in PlanSet : /\ q.premium = 30000
                                 /\ q.outOfPocketMax.person = 500000
                                 /\ q.outOfPocketMax.family = 0 },
        c \in {5000, 10} }

\* The members of the households compared.
CompareProfiles ==
    { [visits |-> [NoVisits EXCEPT !["emergencyRoom"] = 1], medications |-> <<>>],
      [visits |-> [NoVisits EXCEPT !["primaryCare"] = 4, !["imaging"] = 1],
       medications |-> <<>>],
      [visits |-> NoVisits, medications |-> <<CustomMed(1, 6)>>],
      [visits |-> NoVisits, medications |-> <<TierMed(3, 12)>>] }

\* Households of 1..MaxPeople members as the App holds them.
ComparePeopleSet ==
    UNION { { [k \in 1..n |-> [id |-> k, name |-> DefaultName(k),
                                visits |-> f[k].visits,
                                medications |-> f[k].medications]] :
                f \in [1..n -> CompareProfiles] } : n \in 1..MaxPeople }

\* No comparison was made.
CompareIdle == estimates = NoResult

CompareInit ==
    /\ plan \in ComparePlanSet
    /\ people \in ComparePeopleSet
    /\ costSettings \in SettingsSet
    /\ NotCalled
    /\ estimates = NoResult

\* The scenario cards of a plan: the total of each scenario, and the Range.
EstimateScenarios ==
    /\ ~estimates.returned
    /\ LET sc == createScenarios(people)
           best == calculatePlanCost(plan, sc.bestCase, costSettings).total
           likely == calculatePlanCost(plan, sc.mostLikely, costSettings).total
           worst == calculatePlanCost(plan, sc.worstCase, costSettings).total
       IN  estimates' = [returned |-> TRUE, kind |-> "scenarios",
                         bestCase |-> best, mostLikely |-> likely,
                         worstCase |-> worst, range |-> worst - best]
    /\ UNCHANGED calcVars

\* The household with one more visit of type t for person k.
Raised(pp, k, t) == [pp EXCEPT ![k].visits[t] = @ + 1]

\* The estimate of the household, and of the household after one visit count
\* was raised by one.
EstimateRaised(k, t) ==
    /\ ~estimates.returned
    /\ k \in 1..Len(people)
    /\ estimates' =
           [returned |-> TRUE, kind |-> "raised", person |-> k, type |-> t,
            before |-> getDetailedCostBreakdown(plan, people, costSettings).grandTotal,
            after |-> getDetailedCostBreakdown(plan, Raised(people, k, t),
                                               costSettings).grandTotal]
    /\ UNCHANGED calcVars

\* The household listed in the order perm.
Reordered(pp, perm) == [k \in 1..Len(pp) |-> pp[perm[k]]]

\* The estimate of the household, and of the same members in another order.
EstimateReordered(perm) ==
    /\ ~estimates.returned
    /\ LET listed == getDetailedCostBreakdown(plan, people, costSettings)
           other == getDetailedCostBreakdown(plan, Reordered(people, perm),
                                             costSettings)
       IN  estimates' =
               [returned |-> TRUE, kind |-> "reordered", order |-> perm,
                listed |-> [finalFamilyOOP |-> listed.finalFamilyOOP,
                            grandTotal |-> listed.grandTotal],
                other |-> [finalFamilyOOP |-> other.finalFamilyOOP,
                           grandTotal |-> other.grandTotal]]
    /\ UNCHANGED calcVars

(***************************************************************************)
(* The App: the people and scenarios state, its handlers, the effect that  *)
(* follows every setPeople, and the FileReader reads of people files.  A   *)
(* handler runs on the state of the last render, after the effects of that *)
(* render; the onload callback of a read runs later, on the people of the  *)
(* render in which the file was chosen.                                    *)
(***************************************************************************)
\* The most people the household, and a scenario, of the model holds.
MaxHousehold == 2

\* The highest person id the model hands out.
MaxPersonId == 2

\* The most reads under way at a time.
MaxPending == 1

\* createNewPerson(id, name = null), null being the empty name
createNewPerson(id, name) ==
    [id |-> id,
     name |-> IF name = <<>> THEN DefaultName(id) ELSE name,
     visits |-> NoVisits,
     medications |-> <<>>]

\* The three arrays of a value of createScenarios.
ScenarioLists(sc) ==
    [bestCase |-> sc.bestCase, mostLikely |-> sc.mostLikely,
     worstCase |-> sc.worstCase]

\* const defaultPeople = [...]
DefaultPeople == <<createNewPerson(1, <<"Person 1">>)>>

\* The App as it starts on an empty localStorage; the people effect runs
\* after the first render.
AppIdle ==
    /\ appPeople = DefaultPeople
    /\ appScenarios = ScenarioLists(createScenarios(DefaultPeople))
    /\ scenariosEnabled = FALSE
    /\ effectDue = TRUE
    /\ pendingReads = <<>>

AppInit == AppIdle

\* useEffect(() => { ...; setScenarios(prev => ({...prev, mostLikely: [...people]})) }, [people])
PeopleEffect ==
    /\ effectDue
    /\ appScenarios' = [appScenarios EXCEPT !.mostLikely = appPeople]
    /\ effectDue' = FALSE
    /\ UNCHANGED <<appPeople, scenariosEnabled, pendingReads>>

\* The button "Add Person".
addPerson ==
    /\ ~effectDue
    /\ Len(appPeople) < MaxHousehold
    /\ Len(appScenarios.bestCase) < MaxHousehold
    /\ MaxId(appPeople) < MaxPersonId
    /\ LET newId == MaxId(appPeople) + 1
           newPerson == createNewPerson(newId, <<>>)
           added == createScenarios(<<newPerson>>)
       IN  /\ appPeople' = Append(appPeople, newPerson)
           /\ appScenarios' =
                  [bestCase |-> Append(appScenarios.bestCase, added.bestCase[1]),
                   mostLikely |-> Append(appScenarios.mostLikely,
                                         added.mostLikely[1]),
                   worstCase |-> Append(appScenarios.worstCase,
                                        added.worstCase[1])]
    /\ effectDue' = TRUE
    /\ UNCHANGED <<scenariosEnabled, pendingReads>>

\* The list the people panel shows ('mostLikely' being the active scenario).
Displayed == IF scenariosEnabled THEN appScenarios.mostLikely ELSE appPeople

\* Mutant: the last person can be removed too.
removePerson_Unguarded(id) ==
    /\ ~effectDue
    /\ \E k \in 1..Len(Displayed) : Displayed[k].id = id
    /\ appPeople' = SelectSeq(appPeople, LAMBDA p : p.id # id)
    /\ appScenarios' =
           [bestCase |-> SelectSeq(appScenarios.bestCase, LAMBDA p : p.id # id),
            mostLikely |-> SelectSeq(appScenarios.mostLikely,
                                     LAMBDA p : p.id # id),
            worstCase |-> SelectSeq(appScenarios.worstCase,
                                    LAMBDA p : p.id # id)]
    /\ effectDue' = TRUE
    /\ UNCHANGED <<scenariosEnabled, pendingReads>>

\* The remove button of the person with this id.
removePerson(id) ==
    /\ ~effectDue
    /\ \E k \in 1..Len(Displayed) : Displayed[k].id = id
    /\ Len(appPeople) > 1
    /\ appPeople' = SelectSeq(appPeople, LAMBDA p : p.id # id)
    /\ appScenarios' =
           [bestCase |-> SelectSeq(appScenarios.bestCase, LAMBDA p : p.id # id),
            mostLikely |-> SelectSeq(appScenarios.mostLikely,
                                     LAMBDA p : p.id # id),
            worstCase |-> SelectSeq(appScenarios.worstCase,
                                    LAMBDA p : p.id # id)]
    /\ effectDue' = TRUE
    /\ UNCHANGED <<scenariosEnabled, pendingReads>>

\* The files chosen: one that is no JSON, one that holds a person.
PeopleFiles ==
    { [kind |-> "malformed"],
      [kind |-> "json", data |-> [isArray |-> FALSE, items |-> <<FullEntry>>]] }

\* The entries of the file (none when it is no JSON).
FileItems(file) == IF file.kind = "json" THEN file.data.items ELSE <<>>

\* onChange of the file input of the people panel: the read is started, its
\* onload callback closes over the people of this render.
importPeopleData(file) ==
    /\ ~effectDue
    /\ Len(pendingReads) < MaxPending
    /\ Len(appPeople) + Len(FileItems(file)) <= MaxHousehold
    /\ MaxId(appPeople) + Len(FileItems(file)) <= MaxPersonId
    /\ pendingReads' = Append(pendingReads, [people |-> appPeople, file |-> file])
    /\ UNCHANGED <<appPeople, appScenarios, scenariosEnabled, effectDue>>

\* An imported person as an element of people: the name as one piece of
\* text, the medications as the array.
AppPerson(p) ==
    [id |-> p.id, name |-> <<p.name>>, visits |-> p.visits,
     medications |-> p.medications.items]

\* The sequence without its element at position i.
Without(seq, i) == SubSeq(seq, 1, i - 1) \o SubSeq(seq, i + 1, Len(seq))

\* reader.onload of the read at position i.
ReaderOnload(i) ==
    /\ ~effectDue
    /\ i \in 1..Len(pendingReads)
    /\ pendingReads' = Without(pendingReads, i)
    /\ LET read == pendingReads[i]
           valid == IF read.file.kind = "json"
                    THEN importPeople(read.file.data, read.people).people
                    ELSE <<>>
       IN  IF read.file.kind = "json" /\ Len(valid) > 0
           THEN /\ appPeople' = read.people
                                    \o [k \in 1..Len(valid) |-> AppPerson(valid[k])]
                /\ effectDue' = TRUE
           ELSE UNCHANGED <<appPeople, effectDue>>
    /\ UNCHANGED <<appScenarios, scenariosEnabled>>

\* The button "Clear All Data", the question confirmed.
handleClearAllData ==
    /\ ~effectDue
    /\ appPeople' = <<createNewPerson(1, <<"Person 1">>)>>
    /\ plans' = <<>>
    /\ appScenarios' =
           ScenarioLists(createScenarios(<<createNewPerson(1, <<"Person 1">>)>>))
    /\ effectDue' = TRUE
    /\ UNCHANGED <<scenariosEnabled, pendingReads>>

\* The person as toggleScenarios copies it into a scenario.
ScenarioCopy(person, suffix) ==
    [person EXCEPT !.name = ScenarioName(person.name, suffix)]

\* The button "Enable Scenarios" / "Disable Scenarios".
toggleScenarios ==
    /\ ~effectDue
    /\ IF ~scenariosEnabled
       THEN LET mostLikelyData == appScenarios.mostLikely
            IN  appScenarios' =
                    [appScenarios EXCEPT
                        !.bestCase = [k \in 1..Len(mostLikelyData) |->
                                         ScenarioCopy(mostLikelyData[k], BestSuffix)],
                        !.worstCase = [k \in 1..Len(mostLikelyData) |->
                                          ScenarioCopy(mostLikelyData[k],
                                                       WorstSuffix)]]
       ELSE UNCHANGED appScenarios
    /\ scenariosEnabled' = ~scenariosEnabled
    /\ UNCHANGED <<appPeople, effectDue, pendingReads>>

(***************************************************************************)
(* The plans panel of the App: plans added and removed by hand, and        *)
(* imported from a file, whose onload callback runs later, on the plans of *)
(* the render in which the file was chosen.                                *)
(***************************************************************************)
\* The highest plan id addPlan and importPlans hand out in the model.
MaxPlanId == 2

\* export const defaultPlan = {...}, without its premium
DefaultPlanParts ==
    [medicalDeductible |-> [person |-> 0, family |-> 0],
     rxDeductible |-> [person |-> 0, family |-> 0],
     outOfPocketMax |-> [person |-> 0, family |-> 0],
     copays |-> [t \in VisitTypes \cup {"diagnosticTestLab"} |-> 0],
     coinsurance |-> [k \in {"hospitalFacility", "outpatientSurgeryFacility",
                             "outpatientSurgeryASC", "physicianSurgeon",
                             "childbirth", "skilledNursing", "homeHealthCare",
                             "dme", "hospice", "childrenGlasses"} |-> 0],
     rxCopays |-> [k \in 1..5 |-> 0]]

\* The button "Add Plan".
addPlan ==
    /\ Len(plans) < MaxPlans
    /\ MaxId(plans) < MaxPlanId
    /\ LET newId == MaxId(plans) + 1
       IN  plans' = Append(plans,
                       Spread([id |-> newId, name |-> "Plan " \o ToString(newId),
                               premium |-> 0, rxDeductibleWaived |-> <<>>,
                               childrenDentalCheckup |-> 0,
                               childrenEyeExam |-> 0],
                              DefaultPlanParts))
    /\ UNCHANGED <<importPremium, pastedJson, importError, showPromptModal,
                   pendingPlanReads>>

\* The remove button of the plan with this id.
removePlan(id) ==
    /\ \E k \in 1..Len(plans) : plans[k].id = id
    /\ plans' = SelectSeq(plans, LAMBDA p : p.id # id)
    /\ UNCHANGED <<importPremium, pastedJson, importError, showPromptModal,
                   pendingPlanReads>>

\* A plan of a file: the seven required fields, a premium, and an id of its
\* own (which importPlans does not read).
FilePlan ==
    [id |-> 1, name |-> "Gold", premium |-> 25000,
     medicalDeductible |-> [person |-> 50000, family |-> 80000],
     rxDeductible |-> [person |-> 0, family |-> 0],
     outOfPocketMax |-> [person |-> 500000, family |-> 1000000],
     copays |-> [k \in {"primaryCare"} |-> 2500],
     coinsurance |-> [k \in {"dme"} |-> 20],
     rxCopays |-> [k \in {1} |-> 1000]]

\* The plan files chosen: one that is no JSON, one that holds a plan.
PlanFiles ==
    { [kind |-> "malformed"],
      [kind |-> "json", data |-> [isArray |-> FALSE, items |-> <<FilePlan>>]] }

\* requiredFields.every(field => plan.hasOwnProperty(field))
HasRequiredFields(filePlan) ==
    \A k \in 1..Len(RequiredFields) : RequiredFields[k] \in DOMAIN filePlan

\* The object pushed for a plan that has the required fields.
ImportedPlan(filePlan, newId) ==
    [id |-> newId,
     premium |-> IF "premium" \in DOMAIN filePlan THEN filePlan.premium ELSE 0,
     rxDeductibleWaived |-> IF "rxDeductibleWaived" \in DOMAIN filePlan
                            THEN filePlan.rxDeductibleWaived ELSE <<>>,
     childrenDentalCheckup |-> IF "childrenDentalCheckup" \in DOMAIN filePlan
                               THEN filePlan.childrenDentalCheckup ELSE 0,
     childrenEyeExam |-> IF "childrenEyeExam" \in DOMAIN filePlan
                         THEN filePlan.childrenEyeExam ELSE 0,
     name |-> filePlan.name,
     medicalDeductible |-> filePlan.medicalDeductible,
     rxDeductible |-> filePlan.rxDeductible,
     outOfPocketMax |-> filePlan.outOfPocketMax,
     copays |-> Spread(DefaultPlanParts.copays, filePlan.copays),
     coinsurance |-> Spread(DefaultPlanParts.coinsurance, filePlan.coinsurance),
     rxCopays |-> Spread(DefaultPlanParts.rxCopays, filePlan.rxCopays)]

\* for (const plan of plansToImport) { ... }
RECURSIVE ImportPlanLoop(_, _, _)
ImportPlanLoop(items, current, valid) ==
    IF items = <<>> THEN valid
    ELSE ImportPlanLoop(Tail(items), current,
             IF HasRequiredFields(Head(items))
             THEN Append(valid, ImportedPlan(Head(items),
                                             MaxId(current) + Len(valid) + 1))
             ELSE valid)

importPlans(data, current) == ImportPlanLoop(data.items, current, <<>>)

\* onChange of the file input of the plans panel: the read is started, its
\* onload callback closes over the plans of this render.
importPlansData(file) ==
    /\ Len(pendingPlanReads) < MaxPending
    /\ Len(plans) + Len(pendingPlanReads) < MaxPlans
    /\ MaxId(plans) + Len(FileItems(file)) <= MaxPlanId
    /\ pendingPlanReads' = Append(pendingPlanReads,
                                  [plans |-> plans, file |-> file])
    /\ UNCHANGED <<plans, importPremium, pastedJson, importError,
                   showPromptModal>>

\* reader.onload of the plan read at position i.
PlanReaderOnload(i) ==
    /\ i \in 1..Len(pendingPlanReads)
    /\ pendingPlanReads' = Without(pendingPlanReads, i)
    /\ LET read == pendingPlanReads[i]
           validPlans == IF read.file.kind = "json"
                         THEN importPlans(read.file.data, read.plans)
                         ELSE <<>>
       IN  IF Len(validPlans) > 0
           THEN plans' = read.plans \o validPlans
           ELSE UNCHANGED plans
    /\ UNCHANGED <<importPremium, pastedJson, importError, showPromptModal>>

\* What the user of the plans panel types and pastes into the import modal: a
\* premium of 250, and an object that has the required fields and an id and
\* a premium of its own.
PanelPremiums == { v \in PremiumInputs : v.text = "250" }

PanelPasted ==
    { [kind |-> "object",
       data |-> [k \in {RequiredFields[n] : n \in 1..Len(RequiredFields)}
                           \cup {"id", "premium"} |-> 1]] }

(***************************************************************************)
(* Spec: the estimator called on the arguments drawn by Init.              *)
(***************************************************************************)
\* The variables the estimator leaves alone.
nonCalcVars == <<scenVars, listVars, planVars, importVars, compareVars,
                 appVars, planFileVars>>

\* Everything but the estimator, not in use.
OthersIdle ==
    ScenIdle /\ ListIdle /\ PlansIdle /\ ImportIdle /\ CompareIdle /\ AppIdle

Init == CalcInit /\ OthersIdle

Next ==
    \/ \E fn \in Functions : Call(fn) /\ UNCHANGED nonCalcVars
    \/ ProcessPerson /\ UNCHANGED nonCalcVars
    \/ Return /\ UNCHANGED nonCalcVars

Spec == Init /\ [][Next]_vars

(***************************************************************************)
(* CallsSpec: the estimator called again and again on the same arguments,  *)
(* with calls on other arguments in between.                               *)
(***************************************************************************)
CallsPlanSet ==
    {pl \in PlanSet : /\ pl.premium = 30000
                      /\ pl.medicalDeductible.family = 80000
                      /\ pl.outOfPocketMax.family = 100000}

CallsInit ==
    /\ CalcInit
    /\ plan \in CallsPlanSet
    /\ OthersIdle

CallsNext ==
    \/ \E fn \in Functions : Call(fn) /\ UNCHANGED nonCalcVars
    \/ CallOther /\ UNCHANGED nonCalcVars
    \/ ProcessPerson /\ UNCHANGED nonCalcVars
    \/ Return /\ UNCHANGED nonCalcVars

CallsSpec == CallsInit /\ [][CallsNext]_vars

(***************************************************************************)
(* ScenSpec: createPersonScenarios applied to a baseline person.           *)
(***************************************************************************)
ScenSpecInit ==
    CalcIdle /\ ScenInit /\ ListIdle /\ PlansIdle /\ ImportIdle
        /\ CompareIdle /\ AppIdle

ScenNext ==
    CreatePersonScenarios /\ UNCHANGED <<calcVars, listVars, planVars, importVars, laterVars>>

ScenSpec == ScenSpecInit /\ [][ScenNext]_vars

(***************************************************************************)
(* ListSpec: createScenarios applied, MaxCalls times, to a people array.   *)
(***************************************************************************)
ListSpecInit ==
    CalcIdle /\ ScenIdle /\ ListInit /\ PlansIdle /\ ImportIdle
        /\ CompareIdle /\ AppIdle

ListNext ==
    CreateScenarios /\ UNCHANGED <<calcVars, scenVars, planVars, importVars, laterVars>>

ListSpec == ListSpecInit /\ [][ListNext]_vars

(***************************************************************************)
(* PlanImportSpec: the import modal of the App.                            *)
(***************************************************************************)
PlanImportInit ==
    CalcIdle /\ ScenIdle /\ ListIdle /\ PlansInit /\ ImportIdle
        /\ CompareIdle /\ AppIdle

PlanImportNext ==
    \/ showLLMPrompt /\ UNCHANGED <<calcVars, scenVars, listVars, importVars, laterVars>>
    \/ ClosePromptModal /\ UNCHANGED <<calcVars, scenVars, listVars, importVars, laterVars>>
    \/ \E v \in PremiumInputs :
          SetImportPremium(v) /\ UNCHANGED <<calcVars, scenVars, listVars, importVars, laterVars>>
    \/ \E j \in PastedSet :
          SetPastedJson(j) /\ UNCHANGED <<calcVars, scenVars, listVars, importVars, laterVars>>
    \/ handleJsonImport /\ UNCHANGED <<calcVars, scenVars, listVars, importVars, laterVars>>

PlanImportSpec == PlanImportInit /\ [][PlanImportNext]_vars

(***************************************************************************)
(* PeopleImportSpec: importPeople applied to a parsed file.                *)
(***************************************************************************)
PeopleImportInit ==
    CalcIdle /\ ScenIdle /\ ListIdle /\ PlansIdle /\ ImportInit
        /\ CompareIdle /\ AppIdle

PeopleImportNext ==
    ImportPeople /\ UNCHANGED <<calcVars, scenVars, listVars, planVars, laterVars>>

PeopleImportSpec == PeopleImportInit /\ [][PeopleImportNext]_vars

(***************************************************************************)
(* RawSpec: the estimator called on arguments that lack parts.             *)
(***************************************************************************)
RawSpecInit == RawInit /\ OthersIdle

RawSpec == RawSpecInit /\ [][Next]_vars

(***************************************************************************)
(* CompareSpec: the estimator applied to a household and to a related one. *)
(***************************************************************************)
CompareSpecInit ==
    CompareInit /\ ScenIdle /\ ListIdle /\ PlansIdle /\ ImportIdle /\ AppIdle

CompareNext ==
    \/ EstimateScenarios
          /\ UNCHANGED <<scenVars, listVars, planVars, importVars, appVars,
                         planFileVars>>
    \/ \E k \in 1..MaxPeople, t \in VisitTypes :
          EstimateRaised(k, t)
              /\ UNCHANGED <<scenVars, listVars, planVars, importVars, appVars,
                             planFileVars>>
    \/ \E perm \in Permutations(1..Len(people)) :
          EstimateReordered(perm)
              /\ UNCHANGED <<scenVars, listVars, planVars, importVars, appVars,
                             planFileVars>>

CompareSpec == CompareSpecInit /\ [][CompareNext]_vars

(***************************************************************************)
(* AppSpec: the people panel of the App, from its default state.           *)
(***************************************************************************)
\* The plan state but the plans.
modalVars == <<importPremium, pastedJson, importError, showPromptModal>>

AppSpecInit ==
    CalcIdle /\ ScenIdle /\ ListIdle /\ PlansIdle /\ ImportIdle /\ CompareIdle
        /\ AppInit

\* What the people panel leaves alone.
nonAppVars == <<calcVars, scenVars, listVars, importVars, compareVars,
                planFileVars>>

AppNext ==
    \/ PeopleEffect /\ UNCHANGED <<nonAppVars, planVars>>
    \/ addPerson /\ UNCHANGED <<nonAppVars, planVars>>
    \/ \E id \in 1..MaxPersonId : removePerson(id) /\ UNCHANGED <<nonAppVars, planVars>>
    \/ \E file \in PeopleFiles :
          importPeopleData(file) /\ UNCHANGED <<nonAppVars, planVars>>
    \/ \E i \in 1..MaxPending : ReaderOnload(i) /\ UNCHANGED <<nonAppVars, planVars>>
    \/ handleClearAllData /\ UNCHANGED <<nonAppVars, modalVars>>
    \/ toggleScenarios /\ UNCHANGED <<nonAppVars, planVars>>

AppSpec == AppSpecInit /\ [][AppNext]_vars

(***************************************************************************)
(* PlansSpec: the plans panel of the App, from an empty list of plans.     *)
(***************************************************************************)
PlansSpecInit ==
    CalcIdle /\ ScenIdle /\ ListIdle /\ PlansInit /\ ImportIdle /\ CompareIdle
        /\ AppIdle

\* What the plans panel leaves alone.
nonPlanVars == <<calcVars, scenVars, listVars, importVars, compareVars, appVars>>

PlansNext ==
    \/ addPlan /\ UNCHANGED nonPlanVars
    \/ \E id \in 1..MaxPlanId : removePlan(id) /\ UNCHANGED nonPlanVars
    \/ \E file \in PlanFiles : importPlansData(file) /\ UNCHANGED nonPlanVars
    \/ \E i \in 1..MaxPending : PlanReaderOnload(i) /\ UNCHANGED nonPlanVars
    \/ showLLMPrompt /\ UNCHANGED <<nonPlanVars, planFileVars>>
    \/ \E v \in PanelPremiums :
          SetImportPremium(v) /\ UNCHANGED <<nonPlanVars, planFileVars>>
    \/ \E j \in PanelPasted :
          SetPastedJson(j) /\ UNCHANGED <<nonPlanVars, planFileVars>>
    \/ handleJsonImport /\ UNCHANGED <<nonPlanVars, planFileVars>>

PlansSpec == PlansSpecInit /\ [][PlansNext]_vars

(***************************************************************************)
(* Properties.                                                             *)
(***************************************************************************)
RECURSIVE SumEffective(_, _)
SumEffective(its, k) ==
    IF k = 0 THEN 0 ELSE its[k].effectiveDeductiblePaid + SumEffective(its, k - 1)

InCall == call # NoCall

Processed == 1..Len(iterLocals)

\* C1: the finalFamilyOOP returned by getDetailedCostBreakdown never exceeds
\* familyMOOPLimit, for households of any size; and in a two-person household
\* where both people hit the individual MOOP and the family MOOP is lower than
\* the sum of the two capped totals, finalFamilyOOP is familyMOOPLimit.
C1_FamilyOOPWithinLimit ==
    breakdown.returned =>
        /\ breakdown.finalFamilyOOP <= breakdown.familyMOOPLimit
        /\ breakdown.finalFamilyOOP <= FamilyMOOPLimit(plan, people)
        /\ ( /\ Len(people) = 2
             /\ \A k \in 1..2 :
                    breakdown.personBreakdowns[k].note = "Individual MOOP Hit"
             /\ breakdown.familyMOOPLimit <
                    breakdown.personBreakdowns[1].totalOOP
                    + breakdown.personBreakdowns[2].totalOOP )
           => breakdown.finalFamilyOOP = breakdown.familyMOOPLimit

C1_Witness ==
    /\ breakdown.returned
    /\ Len(people) = 2
    /\ \A k \in 1..2 : breakdown.personBreakdowns[k].note = "Individual MOOP Hit"
    /\ plan.outOfPocketMax.family > 0
    /\ plan.outOfPocketMax.family <
           breakdown.personBreakdowns[1].totalOOP
           + breakdown.personBreakdowns[2].totalOOP
    /\ breakdown.finalFamilyOOP = plan.outOfPocketMax.family

\* C2: in a household of more than one person every reported totalOOP is at
\* most individualMOOPLimit, and the note is 'Individual MOOP Hit' exactly when
\* exempt + effectiveDeductiblePaid + coinsurancePaid was greater than
\* individualMOOPLimit, and null otherwise.
C2_IndividualCap ==
    (InCall /\ Len(call.people) > 1) =>
        \A k \in Processed :
            LET it == iterLocals[k]
                pb == personBreakdowns[k]
                preCap == SumCost(it.exempt) + it.effectiveDeductiblePaid
                          + it.coinsurancePaid
                limit == call.plan.outOfPocketMax.person
            IN  /\ pb.totalOOP <= limit
                /\ pb.note = "Individual MOOP Hit" <=> preCap > limit
                /\ pb.note # "Individual MOOP Hit" => pb.note = "null"
                /\ preCap <= limit => pb.totalOOP = preCap

C2_Witness ==
    /\ InCall
    /\ Len(call.people) > 1
    /\ Len(personBreakdowns) = 2
    /\ personBreakdowns[1].note = "Individual MOOP Hit"
    /\ personBreakdowns[1].totalOOP = call.plan.outOfPocketMax.person
    /\ call.plan.outOfPocketMax.person > 0
    /\ personBreakdowns[2].note = "null"
    /\ personBreakdowns[2].totalOOP > 0

\* C3: after any prefix of the people array, the effectiveDeductiblePaid of the
\* people processed so far sum to at most familyDeductibleLimit, and no
\* person's effectiveDeductiblePaid exceeds individualDeductibleLimit or that
\* person's deductible-applicable total.
C3_DeductibleWithinLimits ==
    InCall =>
        /\ SumEffective(iterLocals, Len(iterLocals))
               <= FamilyDeductibleLimit(call.plan, call.people)
        /\ familyDeductiblePaid = SumEffective(iterLocals, Len(iterLocals))
        /\ \A k \in Processed :
               /\ iterLocals[k].effectiveDeductiblePaid
                      <= call.plan.medicalDeductible.person
               /\ iterLocals[k].effectiveDeductiblePaid
                      <= SumCost(personBreakdowns[k].chargeDetails.deductible)

\* The second person's share is cut by what is left of the family deductible.
C3_Witness ==
    /\ InCall
    /\ Len(iterLocals) = 2
    /\ iterLocals[1].effectiveDeductiblePaid > 0
    /\ iterLocals[2].effectiveDeductiblePaid > 0
    /\ iterLocals[2].effectiveDeductiblePaid < iterLocals[2].contributionToDeductible
    /\ familyDeductiblePaid = call.plan.medicalDeductible.family

\* C4: calculatePlanCost and getDetailedCostBreakdown are deterministic and
\* stateless: every result returned for the arguments equals the first one
\* returned for them, whatever calls were made in between, and no step of a
\* call changes plan, people or costSettings.
C4_Deterministic ==
    /\ [](/\ (breakdown.returned /\ firstBreakdown.returned)
                 => breakdown = firstBreakdown
          /\ (summary.returned /\ firstSummary.returned)
                 => summary = firstSummary)
    /\ [][/\ plan' = plan
          /\ people' = people
          /\ costSettings' = costSettings]_vars

\* Both functions have returned for the arguments again after a call on other
\* arguments, which left a coinsurance rate and a paid deductible behind.
C4_Witness ==
    /\ phase = "repeated"
    /\ ~InCall
    /\ breakdown.returned
    /\ summary.returned
    /\ breakdown.grandTotal > breakdown.premiumBreakdown.annualPremium

\* The input of the first end-to-end example: one person, no medications,
\* primaryCare 4, copay 25, premium 300, all deductibles and maximums 0.
C5_Input ==
    /\ Len(people) = 1
    /\ people[1].visits = [NoVisits EXCEPT !["primaryCare"] = 4]
    /\ people[1].medications = <<>>
    /\ plan.copays["primaryCare"] = 2500
    /\ plan.premium = 30000
    /\ plan.medicalDeductible = [person |-> 0, family |-> 0]
    /\ plan.outOfPocketMax = [person |-> 0, family |-> 0]

\* C5: on that input the estimator yields exempt total 100, annualPremium 3600
\* and grandTotal 3700.
C5_Example ==
    (breakdown.returned /\ C5_Input) =>
        /\ SumCost(breakdown.personBreakdowns[1].chargeDetails.exempt) = 10000
        /\ breakdown.premiumBreakdown.annualPremium = 360000
        /\ breakdown.grandTotal = 370000

\* The input of the second end-to-end example: one emergency room visit at
\* 1500, copay 0.2, person deductible 500, person maximum 5000.
C6_Input ==
    /\ Len(call.people) = 1
    /\ call.people[1].visits = [NoVisits EXCEPT !["emergencyRoom"] = 1]
    /\ call.people[1].medications = <<>>
    /\ Costs(call.costSettings)["emergencyRoom"] = 150000
    /\ call.plan.copays["emergencyRoom"] = 20
    /\ call.plan.medicalDeductible.person = 50000
    /\ call.plan.outOfPocketMax.person = 500000

\* C6: for each person, in input order, personalContribution =
\* min(deductibleApplicableTotal, individualDeductibleLimit), familyRemaining =
\* max(0, familyDeductibleLimit - familyDeductiblePaidSoFar),
\* effectiveDeductiblePaid = min(personalContribution, familyRemaining),
\* chargesAfterDeductible = max(0, deductibleApplicableTotal -
\* effectiveDeductiblePaid), coinsurancePaid = chargesAfterDeductible x
\* coinsuranceRate and personTotalOOP = exemptTotal + effectiveDeductiblePaid +
\* coinsurancePaid; on the example's input: deductible 500, coinsurance 200,
\* total 700.
C6_Accumulator ==
    InCall =>
        /\ \A k \in Processed :
            LET it == iterLocals[k]
                applicable == SumCost(it.deductible)
                exemptTotal == SumCost(it.exempt)
                paidSoFar == SumEffective(iterLocals, k - 1)
                individualLimit == call.plan.medicalDeductible.person
                familyLimit == FamilyDeductibleLimit(call.plan, call.people)
                personal == IF applicable <= individualLimit
                            THEN applicable ELSE individualLimit
                remaining == IF familyLimit - paidSoFar >= 0
                             THEN familyLimit - paidSoFar ELSE 0
                effective == IF personal <= remaining THEN personal ELSE remaining
                after == IF applicable - effective >= 0
                         THEN applicable - effective ELSE 0
            IN  /\ it.contributionToDeductible = personal
                /\ it.familyDeductibleRemaining = remaining
                /\ it.effectiveDeductiblePaid = effective
                /\ it.chargesAfterDeductible = after
                /\ it.coinsurancePaid * One = after * it.coinsuranceRate
                /\ it.totalOOP = exemptTotal + effective + it.coinsurancePaid
                /\ personBreakdowns[k].coinsurancePaid = it.coinsurancePaid
                /\ personBreakdowns[k].id = call.people[k].id
        /\ (C6_Input /\ Len(iterLocals) = 1) =>
               /\ iterLocals[1].totalDeductibleApplicableCharges = 150000
               /\ iterLocals[1].effectiveDeductiblePaid = 50000
               /\ iterLocals[1].coinsurancePaid = 20000
               /\ personBreakdowns[1].totalOOP = 70000
               /\ personBreakdowns[1].note = "null"

C6_Witness ==
    /\ InCall
    /\ C6_Input
    /\ Len(iterLocals) = 1
    /\ personBreakdowns[1].totalOOP = 70000

\* The customCost field of the medication holds a usable number.
CustomCostSet(med) ==
    /\ med.customCost.kind \in {"string", "number"}
    /\ med.customCost.val > 0

\* C7: a medication whose customCost is set contributes exactly one
\* deductible-applicable charge of customCost x refills and no exempt charge,
\* whatever its tier and the plan's rxCopays (customCost 60 with 6 refills:
\* 360).
C7_CustomCostCharge ==
    InCall =>
        \A k \in Processed :
            \A m \in 1..Len(call.people[k].medications) :
                LET med == call.people[k].medications[m]
                    isOfMed(c) == c.source = "medication" /\ c.med = m
                    applicable == SelectSeq(iterLocals[k].deductible, isOfMed)
                    exempt == SelectSeq(iterLocals[k].exempt, isOfMed)
                IN  CustomCostSet(med) =>
                        /\ Len(applicable) = 1
                        /\ applicable[1].cost
                               = med.customCost.val * med.refillsPerYear
                        /\ exempt = <<>>

\* C8: annualPremium = 12 x plan.premium and grandTotal = annualPremium +
\* finalFamilyOOP; calculatePlanCost on the same input returns premium = that
\* annualPremium, visits = that finalFamilyOOP, medications = 0 and total =
\* that grandTotal, so that total = premium + visits + medications.
C8_Totals ==
    /\ breakdown.returned =>
        /\ breakdown.premiumBreakdown.annualPremium = 12 * plan.premium
        /\ breakdown.grandTotal
               = breakdown.premiumBreakdown.annualPremium + breakdown.finalFamilyOOP
    /\ summary.returned =>
        /\ breakdown.returned
        /\ summary.premium = breakdown.premiumBreakdown.annualPremium
        /\ summary.visits = breakdown.finalFamilyOOP
        /\ summary.medications = 0
        /\ summary.total = breakdown.grandTotal
        /\ summary.total = summary.premium + summary.visits + summary.medications

C8_Witness ==
    /\ summary.returned
    /\ breakdown.returned
    /\ summary.premium = 360000
    /\ summary.visits > 0
    /\ summary.total = 360000 + summary.visits

\* C9: every bestCase count is floor(baseline count x factor), with the
\* factors primaryCare 0.5, specialist 0.3, urgentCare 0.2, mentalHealth 0.7,
\* diagnosticTest 0.5, imaging 0.3, rehabilitationOutpatient 0.5,
\* habilitationOutpatient 0.5, and emergencyRoom is 0; every count is a
\* non-negative integer not greater than the baseline count.
C9_BestCaseFloor ==
    personScenarios.returned =>
        LET tenths == [primaryCare |-> 5, specialist |-> 3, urgentCare |-> 2,
                       emergencyRoom |-> 0, mentalHealth |-> 7,
                       diagnosticTest |-> 5, imaging |-> 3,
                       rehabilitationOutpatient |-> 5,
                       habilitationOutpatient |-> 5]
        IN  \A t \in VisitTypes :
                /\ personScenarios.bestCase.visits[t]
                       = (baseline.visits[t] * tenths[t]) \div 10
                /\ personScenarios.bestCase.visits[t] \in Nat
                /\ personScenarios.bestCase.visits[t] <= baseline.visits[t]

\* C10: every worstCase count is the baseline count plus primaryCare 2,
\* specialist 3, urgentCare 1, emergencyRoom 1, mentalHealth 2,
\* diagnosticTest 2, imaging 1, rehabilitationOutpatient 4,
\* habilitationOutpatient 2.
C10_WorstCaseDeltas ==
    personScenarios.returned =>
        LET w == personScenarios.worstCase.visits
            b == baseline.visits
        IN  /\ w["primaryCare"] = b["primaryCare"] + 2
            /\ w["specialist"] = b["specialist"] + 3
            /\ w["urgentCare"] = b["urgentCare"] + 1
            /\ w["emergencyRoom"] = b["emergencyRoom"] + 1
            /\ w["mentalHealth"] = b["mentalHealth"] + 2
            /\ w["diagnosticTest"] = b["diagnosticTest"] + 2
            /\ w["imaging"] = b["imaging"] + 1
            /\ w["rehabilitationOutpatient"] = b["rehabilitationOutpatient"] + 4
            /\ w["habilitationOutpatient"] = b["habilitationOutpatient"] + 2

C10_Witness ==
    /\ personScenarios.returned
    /\ baseline.visits["rehabilitationOutpatient"] = 3
    /\ baseline.visits["emergencyRoom"] = 0
    /\ personScenarios.worstCase.visits["rehabilitationOutpatient"] = 7
    /\ personScenarios.worstCase.visits["emergencyRoom"] = 1

RECURSIVE Occurrences(_, _)
Occurrences(name, piece) ==
    IF name = <<>> THEN 0
    ELSE (IF Head(name) = piece THEN 1 ELSE 0) + Occurrences(Tail(name), piece)

EndsIn(name, piece) == name # <<>> /\ name[Len(name)] = piece

\* C11: createScenarios applied again to the same people returns what it
\* returned the first time; and for a person whose name already ends in
\* ' (Best Case)' (resp. ' (Worst Case)') the bestCase (resp. worstCase) name
\* has exactly one occurrence of that suffix.
C11_SuffixOnce ==
    scenarios.returned =>
        /\ scenarios = firstScenarios
        /\ \A k \in 1..Len(basePeople) :
               /\ EndsIn(basePeople[k].name, BestSuffix) =>
                      Occurrences(scenarios.bestCase[k].name, BestSuffix) = 1
               /\ EndsIn(basePeople[k].name, WorstSuffix) =>
                      Occurrences(scenarios.worstCase[k].name, WorstSuffix) = 1

\* C12: createScenarios(people) returns three arrays of the length of people,
\* their k-th entries bearing the id of the k-th person; the bestCase and
\* worstCase entries have that person's medications, the mostLikely entry
\* equals that person in every field, and people is left as it was.
C12_ScenariosFrame ==
    /\ [](scenarios.returned =>
            /\ Len(scenarios.bestCase) = Len(basePeople)
            /\ Len(scenarios.mostLikely) = Len(basePeople)
            /\ Len(scenarios.worstCase) = Len(basePeople)
            /\ \A k \in 1..Len(basePeople) :
                   /\ scenarios.bestCase[k].id = basePeople[k].id
                   /\ scenarios.mostLikely[k].id = basePeople[k].id
                   /\ scenarios.worstCase[k].id = basePeople[k].id
                   /\ scenarios.bestCase[k].medications = basePeople[k].medications
                   /\ scenarios.worstCase[k].medications = basePeople[k].medications
                   /\ scenarios.mostLikely[k] = basePeople[k])
    /\ [][basePeople' = basePeople]_vars

\* Scenarios of two people, the second with visits and a medication.
C12_Witness ==
    /\ scenarios.returned
    /\ Len(basePeople) = 2
    /\ basePeople[1].id = 1
    /\ basePeople[2].id = 2
    /\ basePeople[2].medications # <<>>
    /\ basePeople[1].medications = <<>>
    /\ scenarios.worstCase[2].visits # basePeople[2].visits
    /\ scenarios.mostLikely[2] = basePeople[2]

\* The pasted text does not parse to an object, or the object lacks one of
\* the seven fields.
LacksFields(pasted) ==
    \/ pasted.kind \in {"malformed", "null"}
    \/ /\ pasted.kind = "object"
       /\ \E k \in 1..Len(RequiredFields) : RequiredFields[k] \notin DOMAIN pasted.data

\* C13: when the pasted JSON lacks a required field or does not parse,
\* handleJsonImport leaves plans unchanged, keeps the modal open and sets a
\* non-empty importError, which names every missing field when
\* importPlanFromJSON rejected the object; and a plan is appended only when
\* all seven fields are present and the premium is greater than 0.
C13_ImportRejects ==
    [][handleJsonImport =>
          /\ LacksFields(pastedJson) =>
                 /\ plans' = plans
                 /\ showPromptModal'
                 /\ importError' # NoError
          /\ ( /\ pastedJson.kind = "object"
               /\ LacksFields(pastedJson)
               /\ ~PremiumRejected(importPremium) ) =>
                 /\ importError'.kind = "invalid"
                 /\ \A k \in 1..Len(RequiredFields) :
                        RequiredFields[k] \notin DOMAIN pastedJson.data
                        <=> \E j \in 1..Len(importError'.fields) :
                                importError'.fields[j] = RequiredFields[k]
          /\ plans' # plans =>
                 /\ pastedJson.kind = "object"
                 /\ \A k \in 1..Len(RequiredFields) :
                        RequiredFields[k] \in DOMAIN pastedJson.data
                 /\ importPremium.text # ""
                 /\ importPremium.val > 0
                 /\ Len(plans') = Len(plans) + 1
                 /\ SubSeq(plans', 1, Len(plans)) = plans]_vars

\* An object without copays and rxCopays was rejected, the premium being 250.
C13_Witness ==
    /\ showPromptModal
    /\ plans = <<>>
    /\ importPremium.val = 25000
    /\ pastedJson.kind = "object"
    /\ DOMAIN pastedJson.data # {}
    /\ importError.kind = "invalid"
    /\ importError.fields = <<"copays", "rxCopays">>

\* C14: every person returned by importPeople comes from an entry that has
\* name, visits and medications, bears its name, has an array of medications
\* and a visits mapping of exactly the nine visit types, with the value of the
\* entry for the types the entry gives and 0 for the others; and no more
\* people are returned than there are such entries.
C14_ImportedPeople ==
    validPeople.returned =>
        LET items == importedData.items
            complete(e) == {"name", "visits", "medications"} \subseteq DOMAIN e
        IN  /\ Len(validPeople.people)
                   <= Cardinality({k \in 1..Len(items) : complete(items[k])})
            /\ \A j \in 1..Len(validPeople.people) :
                   LET p == validPeople.people[j]
                   IN  /\ p.name # ""
                       /\ "items" \in DOMAIN p.medications
                       /\ DOMAIN p.visits = VisitTypes
                       /\ \E k \in 1..Len(items) :
                              /\ complete(items[k])
                              /\ items[k].name = p.name
                              /\ items[k].visits # JsonNull
                              /\ \A t \in VisitTypes :
                                     p.visits[t] = IF t \in DOMAIN items[k].visits
                                                   THEN items[k].visits[t]
                                                   ELSE 0

\* The charges of the list that stand for the medication at position m.
MedItems(items, m) ==
    SelectSeq(items, LAMBDA c : c.source = "medication" /\ c.med = m)

\* The charges of the list that stand for visits of type t.
VisitItems(items, t) == SelectSeq(items, LAMBDA c : c.source = t)

\* C15: the estimator never raises; visit counts the person lacks give no
\* charge, a plan without copays makes every exempt visit charge 0, a plan
\* without rxCopays gives no tier-priced medication charge, and a plan without
\* medicalDeductible or outOfPocketMax has limits of 0.
C15_NeverRaises ==
    /\ thrown = "none"
    /\ InCall =>
           \A k \in Processed :
               LET charges == iterLocals[k].exempt \o iterLocals[k].deductible
               IN  \A j \in 1..Len(charges) :
                       /\ charges[j].med = 0 =>
                              charges[j].source \in DOMAIN call.people[k].visits
                       /\ ( /\ charges[j].med = 0
                            /\ "copays" \notin DOMAIN call.plan
                            /\ charges[j].source
                                   \in {ExemptTypes[i] : i \in 1..Len(ExemptTypes)} )
                          => charges[j].cost = 0
                       /\ ( /\ charges[j].med # 0
                            /\ "rxCopays" \notin DOMAIN call.plan )
                          => ParsedCustomCost(
                                 call.people[k].medications[charges[j].med]) # 0
    /\ breakdown.returned =>
           /\ "medicalDeductible" \notin DOMAIN plan =>
                  /\ breakdown.individualDeductibleLimit = 0
                  /\ breakdown.familyDeductibleLimit = 0
           /\ "outOfPocketMax" \notin DOMAIN plan =>
                  /\ breakdown.individualMOOPLimit = 0
                  /\ breakdown.familyMOOPLimit = 0

\* The customCost of the medication does not coerce to a usable number.
CustomCostUnusable(med) ==
    \/ med.customCost.kind \in {"absent", "null"}
    \/ med.customCost.kind = "number" /\ med.customCost.val \in {0, NaN}
    \/ med.customCost.kind = "string"
           /\ (med.customCost.empty \/ med.customCost.val \in {0, NaN})

\* C16: a medication whose customCost does not coerce to a usable number
\* (its refills being set) is priced by its tier's rxCopay: one exempt charge
\* of rxCopay x refills and no deductible-applicable one when rxCopay > 1, one
\* deductible-applicable charge of 100 x refills and no exempt one when rxCopay
\* is in (0,1].
C16_UnusableCustomCost ==
    InCall =>
        \A k \in Processed :
            \A m \in 1..Len(call.people[k].medications) :
                LET med == call.people[k].medications[m]
                    rxCopay == RxCopay(call.plan, med)
                    exempt == MedItems(iterLocals[k].exempt, m)
                    applicable == MedItems(iterLocals[k].deductible, m)
                IN  (CustomCostUnusable(med) /\ med.refillsPerYear > 0) =>
                        /\ rxCopay > One =>
                               /\ Len(exempt) = 1
                               /\ exempt[1].cost = rxCopay * med.refillsPerYear
                               /\ applicable = <<>>
                        /\ (rxCopay > 0 /\ rxCopay <= One) =>
                               /\ Len(applicable) = 1
                               /\ applicable[1].cost = 10000 * med.refillsPerYear
                               /\ exempt = <<>>

\* C17: the cost per occurrence of each deductible-applicable visit type is
\* the one costSettings supplies for the type, and the default (emergencyRoom
\* 1500, diagnosticTest 300, imaging 200, rehabilitationOutpatient 150,
\* habilitationOutpatient 150) when costSettings is absent or does not supply
\* the type.
C17_AssumedCosts ==
    InCall =>
        \A k \in Processed :
            \A t \in {DeductibleTypes[i] : i \in 1..Len(DeductibleTypes)} :
                LET default == [emergencyRoom |-> 150000, diagnosticTest |-> 30000,
                                imaging |-> 20000,
                                rehabilitationOutpatient |-> 15000,
                                habilitationOutpatient |-> 15000]
                    supplied == /\ call.costSettings # NullSettings
                                /\ t \in DOMAIN call.costSettings
                    assumed == IF supplied THEN call.costSettings[t] ELSE default[t]
                    visits == IF t \in DOMAIN call.people[k].visits
                              THEN call.people[k].visits[t] ELSE 0
                    items == VisitItems(iterLocals[k].deductible, t)
                IN  visits > 0 =>
                        /\ Len(items) = 1
                        /\ items[1].cost = visits * assumed

\* The iteration that has just ended; every iteration is the last one in the
\* state that follows it.
JustProcessed == {Len(iterLocals)} \ {0}

\* The coinsurance rate on entry of iteration k.
RateBefore(k) == IF k = 1 THEN 0 ELSE iterLocals[k - 1].coinsuranceRate

\* The person without the visits of the exempt types.
WithoutExemptVisits(person) ==
    [person EXCEPT !.visits =
        [t \in VisitTypes |->
            IF t \in {"primaryCare", "specialist", "urgentCare", "mentalHealth"}
            THEN 0 ELSE person.visits[t]]]

\* C18: visits of type primaryCare, specialist, urgentCare and mentalHealth
\* give one exempt charge of visits x copays[type], also for a copay in
\* (0,1); they give no deductible-applicable charge, and the
\* deductible-applicable total, the deductible paid, the charges after the
\* deductible and the coinsurance rate are what they are without these visits.
C18_ExemptVisits ==
    InCall =>
        \A k \in JustProcessed :
            LET person == call.people[k]
                it == iterLocals[k]
                without == Iteration(call.plan, call.people, call.costSettings,
                                     WithoutExemptVisits(person), RateBefore(k),
                                     SumEffective(iterLocals, k - 1))
            IN  /\ \A t \in {"primaryCare", "specialist", "urgentCare",
                             "mentalHealth"} :
                       /\ person.visits[t] > 0 =>
                              /\ Len(VisitItems(it.exempt, t)) = 1
                              /\ VisitItems(it.exempt, t)[1].cost
                                     = person.visits[t] * call.plan.copays[t]
                       /\ person.visits[t] = 0 => VisitItems(it.exempt, t) = <<>>
                       /\ VisitItems(it.deductible, t) = <<>>
                /\ it.deductible = without.deductible
                /\ it.totalDeductibleApplicableCharges
                       = without.totalDeductibleApplicableCharges
                /\ it.effectiveDeductiblePaid = without.effectiveDeductiblePaid
                /\ it.chargesAfterDeductible = without.chargesAfterDeductible
                /\ it.coinsuranceRate = without.coinsuranceRate
                /\ it.coinsurancePaid = without.coinsurancePaid

\* An urgent care visit at a copay of 0.50 is charged 0.50 as exempt, next to
\* an emergency room visit that sets the rate to 20%.
C18_Witness ==
    /\ InCall
    /\ Len(iterLocals) >= 1
    /\ call.people[1].visits["urgentCare"] = 1
    /\ call.plan.copays["urgentCare"] = 50
    /\ VisitItems(iterLocals[1].exempt, "urgentCare")
           = <<[source |-> "urgentCare", med |-> 0, cost |-> 50]>>
    /\ iterLocals[1].coinsuranceRate = 20
    /\ iterLocals[1].totalExemptCopays = 5050

NoCustomCost(med) ==
    \/ med.customCost.kind = "absent"
    \/ med.customCost.kind = "string" /\ med.customCost.empty

\* C20: a medication without custom cost is classified by
\* rxCopays['tier' + tier] alone: rxCopay > 1 gives one exempt charge of
\* rxCopay x refills, rxCopay in (0,1] one deductible-applicable charge of
\* 100 x refills, rxCopay 0 or missing no charge; and no medication has a
\* charge in both lists.
C20_TierClassification ==
    InCall =>
        \A k \in Processed :
            \A m \in 1..Len(call.people[k].medications) :
                LET med == call.people[k].medications[m]
                    rxCopay == IF /\ "rxCopays" \in DOMAIN call.plan
                                  /\ med.tier \in DOMAIN call.plan.rxCopays
                               THEN call.plan.rxCopays[med.tier]
                               ELSE 0
                    exempt == MedItems(iterLocals[k].exempt, m)
                    applicable == MedItems(iterLocals[k].deductible, m)
                IN  /\ NoCustomCost(med) =>
                        /\ rxCopay > One =>
                               /\ Len(exempt) = 1
                               /\ exempt[1].cost = rxCopay * med.refillsPerYear
                               /\ applicable = <<>>
                        /\ (rxCopay > 0 /\ rxCopay <= One) =>
                               /\ Len(applicable) = 1
                               /\ applicable[1].cost = 10000 * med.refillsPerYear
                               /\ exempt = <<>>
                        /\ rxCopay = 0 => (exempt = <<>> /\ applicable = <<>>)
                    /\ exempt = <<>> \/ applicable = <<>>

\* The positions of the deductible-applicable types of which the person has
\* visits at a copay in (0,1).
OwnRateTypes(pl, person) ==
    { k \in 1..Len(DeductibleTypes) :
        /\ person.visits[DeductibleTypes[k]] > 0
        /\ pl.copays[DeductibleTypes[k]] > 0
        /\ pl.copays[DeductibleTypes[k]] < One }

\* The positions of the person's medications priced as coinsurance.
OwnRateMeds(pl, person) ==
    { m \in 1..Len(person.medications) : MedIsCoinsurance(pl, person.medications[m]) }

\* The rate the person's own charges give: of the last such visit type, else
\* of the first such medication, else 0.
OwnRate(pl, person) ==
    IF OwnRateTypes(pl, person) # {}
    THEN pl.copays[DeductibleTypes[
             CHOOSE k \in OwnRateTypes(pl, person) :
                 \A j \in OwnRateTypes(pl, person) : j <= k]]
    ELSE IF OwnRateMeds(pl, person) # {}
    THEN pl.rxCopays[person.medications[
             CHOOSE m \in OwnRateMeds(pl, person) :
                 \A j \in OwnRateMeds(pl, person) : m <= j].tier]
    ELSE 0

\* C21: the coinsurance rate applied to a person's deductible-applicable pool
\* is the rate of that person's own charges (last deductible-applicable visit
\* type with visits and a copay in (0,1), else the first coinsurance-priced
\* medication), and it is 0, with coinsurancePaid 0, when the person has
\* neither.
C21_OwnRate ==
    InCall =>
        \A k \in JustProcessed :
            LET person == call.people[k]
                it == iterLocals[k]
            IN  /\ it.coinsuranceRate = OwnRate(call.plan, person)
                /\ OwnRate(call.plan, person) = 0 => it.coinsurancePaid = 0

\* C22: a medication whose refillsPerYear is n is charged for exactly n
\* refills: every charge of it is its price per refill times n, so that n = 0
\* gives a charge of 0.
C22_RefillsAsGiven ==
    InCall =>
        \A k \in JustProcessed :
            \A m \in 1..Len(call.people[k].medications) :
                LET med == call.people[k].medications[m]
                    n == med.refillsPerYear
                    exempt == MedItems(iterLocals[k].exempt, m)
                    applicable == MedItems(iterLocals[k].deductible, m)
                    perRefill == IF ParsedCustomCost(med) # 0
                                 THEN ParsedCustomCost(med)
                                 ELSE EstimatedDrugCost
                IN  /\ \A c \in 1..Len(exempt) :
                           exempt[c].cost = RxCopay(call.plan, med) * n
                    /\ \A c \in 1..Len(applicable) :
                           applicable[c].cost = perRefill * n

RECURSIVE SumCharges(_, _)
\* The exempt and deductible-applicable charges of the first k people.
SumCharges(breakdowns, k) ==
    IF k = 0 THEN 0
    ELSE breakdowns[k].totalCharges + SumCharges(breakdowns, k - 1)

\* C26: every person's totalOOP, before and after the individual cap, is at
\* least 0 and at most the sum of that person's exempt and
\* deductible-applicable charges; finalFamilyOOP is at least 0 and at most the
\* sum of the charges of the household; grandTotal is at least annualPremium.
C26_OOPWithinCharges ==
    /\ InCall =>
          \A k \in JustProcessed :
              LET it == iterLocals[k]
                  charges == it.totalExemptCopays
                                 + it.totalDeductibleApplicableCharges
              IN  /\ it.totalOOP >= 0
                  /\ it.totalOOP <= charges
                  /\ personBreakdowns[k].totalOOP >= 0
                  /\ personBreakdowns[k].totalOOP <= charges
    /\ breakdown.returned =>
          /\ breakdown.finalFamilyOOP >= 0
          /\ breakdown.finalFamilyOOP
                 <= SumCharges(breakdown.personBreakdowns,
                               Len(breakdown.personBreakdowns))
          /\ breakdown.grandTotal >= breakdown.premiumBreakdown.annualPremium

\* A returned household in which the first person paid coinsurance: the
\* person's total lies strictly between 0 and the charges, and so does the
\* household's.
C26_Witness ==
    /\ breakdown.returned
    /\ breakdown.personBreakdowns[1].totalOOP > 0
    /\ breakdown.personBreakdowns[1].totalOOP
           < breakdown.personBreakdowns[1].totalCharges
    /\ breakdown.personBreakdowns[1].coinsurancePaid > 0
    /\ breakdown.finalFamilyOOP > 0
    /\ breakdown.finalFamilyOOP
           < SumCharges(breakdown.personBreakdowns, Len(breakdown.personBreakdowns))
    /\ breakdown.grandTotal > breakdown.premiumBreakdown.annualPremium

\* C24: the total of the generated worstCase scenario is at least the total
\* of mostLikely, which is at least the total of the generated bestCase
\* scenario, so that the Range is not negative; and raising a visit count of
\* a person does not lower grandTotal.
C24_Monotone ==
    /\ (estimates.returned /\ estimates.kind = "scenarios") =>
           /\ estimates.worstCase >= estimates.mostLikely
           /\ estimates.mostLikely >= estimates.bestCase
           /\ estimates.range >= 0
    /\ (estimates.returned /\ estimates.kind = "raised") =>
           estimates.after >= estimates.before

\* C25: finalFamilyOOP and grandTotal are the same for every order of the
\* people array.
C25_OrderIndependent ==
    (estimates.returned /\ estimates.kind = "reordered") =>
        /\ estimates.other.finalFamilyOOP = estimates.listed.finalFamilyOOP
        /\ estimates.other.grandTotal = estimates.listed.grandTotal

\* The ids of a list of people, in its order.
IdsOf(list) == [k \in 1..Len(list) |-> list[k].id]

\* C23: right after scenarios are enabled, the bestCase visit counts of every
\* person are the reduced counts the scenario generator derives from that
\* person's mostLikely counts, and the worstCase counts are the mostLikely
\* counts plus the additions of the generator.
C23_EnabledScenarios ==
    [][ (toggleScenarios /\ ~scenariosEnabled) =>
            /\ IdsOf(appScenarios'.bestCase) = IdsOf(appScenarios.mostLikely)
            /\ IdsOf(appScenarios'.worstCase) = IdsOf(appScenarios.mostLikely)
            /\ \A k \in 1..Len(appScenarios.mostLikely) :
                   LET person == appScenarios.mostLikely[k]
                   IN  /\ appScenarios'.bestCase[k].visits
                              = BestCaseVisits(person.visits)
                       /\ appScenarios'.worstCase[k].visits
                              = WorstCaseVisits(person.visits) ]_vars

\* C27: the people list holds at least one person, and the ids of its people
\* are pairwise distinct.
C27_PeopleIds ==
    /\ Len(appPeople) >= 1
    /\ \A j, k \in 1..Len(appPeople) :
           appPeople[j].id = appPeople[k].id => j = k

\* The imported person alone, after the person the App started with was
\* removed.
C27_Witness ==
    /\ Len(appPeople) = 1
    /\ appPeople[1].id = 2
    /\ appPeople[1].name = <<"Bob">>
    /\ ~effectDue

\* C28: in every settled state each of the three scenarios holds exactly the
\* person ids of the people list, in the same order, and mostLikely is the
\* people list.
C28_ScenarioIds ==
    ~effectDue =>
        /\ IdsOf(appScenarios.bestCase) = IdsOf(appPeople)
        /\ IdsOf(appScenarios.mostLikely) = IdsOf(appPeople)
        /\ IdsOf(appScenarios.worstCase) = IdsOf(appPeople)
        /\ appScenarios.mostLikely = appPeople

\* C30: when the onload callback of a people file runs after the people were
\* changed, the people list is afterwards the list as changed followed by the
\* imported people, and every person of bestCase and worstCase is in it.
C30_ImportKeepsEdits ==
    [][ \A i \in 1..Len(pendingReads) :
            ReaderOnload(i) =>
                LET read == pendingReads[i]
                    valid == IF read.file.kind = "json"
                             THEN importPeople(read.file.data, read.people).people
                             ELSE <<>>
                    ids == {appPeople'[k].id : k \in 1..Len(appPeople')}
                IN  /\ Len(appPeople') = Len(appPeople) + Len(valid)
                    /\ SubSeq(appPeople', 1, Len(appPeople)) = appPeople
                    /\ \A k \in 1..Len(appScenarios'.bestCase) :
                           appScenarios'.bestCase[k].id \in ids
                    /\ \A k \in 1..Len(appScenarios'.worstCase) :
                           appScenarios'.worstCase[k].id \in ids ]_vars

\* The step in which handleJsonImport adds a plan: the one step that adds a
\* plan and closes the import modal.
JsonImported ==
    /\ showPromptModal
    /\ ~showPromptModal'
    /\ Len(plans') = Len(plans) + 1

\* C29: the ids of the plans are pairwise distinct; and a plan added by
\* handleJsonImport has the id max existing id + 1 and the premium of the
\* import form, whatever fields the pasted object has.
C29_PlanIds ==
    [][ /\ \A j, k \in 1..Len(plans') :
               plans'[j].id = plans'[k].id => j = k
        /\ JsonImported =>
               /\ plans'[Len(plans')].id = MaxId(plans) + 1
               /\ plans'[Len(plans')].premium = ParseFloat(importPremium) ]_vars

====
